---- MODULE Spec2Model ----
(***************************************************************************)
(* A model of the session engine of opencode: tool-output truncation and   *)
(* spill (tool/truncation.ts), context overflow detection, pruning and     *)
(* summarising compaction (session/compaction.ts), the batch tool, the     *)
(* hook dispatchers (hook/index.ts), the store (schema migrations, the     *)
(* JSON importer, its tables and cascades) and the apply_patch tool.       *)
(* Each subsystem has its own specification over a shared set of           *)
(* variables; a specification leaves the other subsystems' variables at    *)
(* their initial values.                                                   *)
(***************************************************************************)
EXTENDS Integers, Sequences, FiniteSets, TLC

VARIABLES
    now,        \* Date.now(), in units of 1024 ms
    dir,        \* the entries of Truncate.DIR: a set of files
    gc,         \* the lazy init() of truncation.ts: its state and what it did
    call,       \* per caller of Truncate.output: position, arguments, result
    idCounter,  \* Identifier: number of ids minted so far
    ticks,      \* number of steps the clock has made
    restarts,   \* number of process restarts so far
    ov,         \* one call of SessionCompaction.isOverflow: arguments and result
    msgs,       \* the messages of one session, oldest first, with their parts
    holders,    \* SessionLock: per session, the requests that hold its lock
    signal,     \* SessionLock: per session, whether the held token's signal is aborted
    req,        \* per request (a turn or a compaction): position and locals
    compacting, \* per session: whether session.time.compacting is set
    store,      \* the persisted summary messages, by id
    events,     \* the events published on the bus, in order
    batch,      \* one call of the batch tool: position, tool_calls, results
    parts,      \* the tool parts of the batch, by part id: the states written
    queue,      \* the repository's part writes issued and not yet applied
    hook,       \* one call of a HookOrchestrator dispatcher
    mig,        \* the JSON importer: legacy tree, database, marker, position
    sch,        \* the schema migrator: the database's schema, _migrations, one open
    todo,       \* the todo table, the bus, and one call of Todo.update
    rel,        \* the relational store: its rows, and the operation under way
    patch       \* one call of apply_patch: the files, the patch, its position

truncVars == <<now, dir, gc, call, idCounter, ticks, restarts>>
overflowVars == <<ov>>
pruneVars == <<msgs>>
compactionVars == <<holders, signal, req, compacting, store, events>>
batchVars == <<batch, parts, queue>>
hookVars == <<hook>>
migrationVars == <<mig>>
schemaVars == <<sch>>
todoVars == <<todo>>
relVars == <<rel>>
patchVars == <<patch>>

vars == <<truncVars, overflowVars, pruneVars, compactionVars, batchVars, hookVars,
          migrationVars, schemaVars, todoVars, relVars, patchVars>>

notTrunc == <<overflowVars, pruneVars, compactionVars, batchVars, hookVars, migrationVars,
    schemaVars, todoVars, relVars, patchVars>>
notOverflow == <<truncVars, pruneVars, compactionVars, batchVars, hookVars, migrationVars,
    schemaVars, todoVars, relVars, patchVars>>
notPrune == <<truncVars, overflowVars, compactionVars, batchVars, hookVars, migrationVars,
    schemaVars, todoVars, relVars, patchVars>>
notCompaction == <<truncVars, overflowVars, pruneVars, batchVars, hookVars, migrationVars,
    schemaVars, todoVars, relVars, patchVars>>
notBatch == <<truncVars, overflowVars, pruneVars, compactionVars, hookVars, migrationVars,
    schemaVars, todoVars, relVars, patchVars>>
notHook == <<truncVars, overflowVars, pruneVars, compactionVars, batchVars, migrationVars,
    schemaVars, todoVars, relVars, patchVars>>
notMigration == <<truncVars, overflowVars, pruneVars, compactionVars, batchVars, hookVars,
    schemaVars, todoVars, relVars, patchVars>>

notSchema == <<truncVars, overflowVars, pruneVars, compactionVars, batchVars, hookVars,
    migrationVars, todoVars, relVars, patchVars>>
notTodo == <<truncVars, overflowVars, pruneVars, compactionVars, batchVars, hookVars,
    migrationVars, schemaVars, relVars, patchVars>>
notRel == <<truncVars, overflowVars, pruneVars, compactionVars, batchVars, hookVars,
    migrationVars, schemaVars, todoVars, patchVars>>
notPatch == <<truncVars, overflowVars, pruneVars, compactionVars, batchVars, hookVars,
    migrationVars, schemaVars, todoVars, relVars>>

None == "none"

\* An optional number that was not given.
Unset == 0 - 1

\* No path: the outputPath of a result that spilled nothing.
NoPath == [prefix |-> "", stamp |-> 0, serial |-> 0]

Min(a, b) == IF a < b THEN a ELSE b

\* The value a specification keeps for the overflow call it does not make.
IdleOv == [state |-> "idle"]
IdleBatchCall == [pc |-> "idle"]
IdleHook == [pc |-> "idle"]
IdleMig == [pc |-> "idle"]
IdleSch == [pc |-> "idle"]
IdleTodo == [pc |-> "idle"]
IdleRel == [pc |-> "idle"]
IdlePatch == [pc |-> "idle"]

(***************************************************************************)
(* Truncate (tool/truncation.ts)                                           *)
(***************************************************************************)

\* Bounds of the truncation model: the length of a text and the number of
\* calls of output() in SpecTruncate; the calls per process, the steps of the
\* clock and the restarts in SpecSpill.
MaxTextLen == 3
MaxCalls == 1
MaxSpillCalls == 2
MaxTicks == 2
MaxRestarts == 1

MAX_LINES == 2000
MAX_BYTES == 50 * 1024

\* Times are counted in units of 1024 ms so that a present-day Date.now()
\* fits the model checker's integers; RETENTION_MS is a multiple of 1024.
MsPerUnit == 2 ^ 10
RETENTION_MS == (7 * 24 * 60 * 60 * 1000) \div MsPerUnit

\* A Date.now() of the year 2026 (1.79e12 ms), in units of 1024 ms.
StartTime == 1748 * 1000 * 1000

\* entry.slice(5, 17) is 12 hex digits (48 bits); BigInt / 0x1000 leaves 36
\* bits of milliseconds (2^36 ms), that is 2^26 units of 1024 ms.
StampLimit == 2 ^ 26

\* The characters of a text: a one-byte character, a two-byte character
\* (UTF-8) and the line feed.
NL == "NL"
Chars == {"a", "U2", NL}

CharBytes(c) == IF c = "U2" THEN 2 ELSE 1

\* Buffer.byteLength(s, "utf-8")
RECURSIVE ByteLength(_)
ByteLength(s) == IF s = <<>> THEN 0 ELSE CharBytes(Head(s)) + ByteLength(Tail(s))

\* text.split("\n")
RECURSIVE SplitFrom(_, _)
SplitFrom(s, cur) ==
    IF s = <<>> THEN <<cur>>
    ELSE IF Head(s) = NL THEN <<cur>> \o SplitFrom(Tail(s), <<>>)
    ELSE SplitFrom(Tail(s), Append(cur, Head(s)))

Split(s) == SplitFrom(s, <<>>)

\* out.join("\n")
RECURSIVE Join(_)
Join(lines) ==
    IF lines = <<>> THEN <<>>
    ELSE IF Len(lines) = 1 THEN lines[1]
    ELSE lines[1] \o <<NL>> \o Join(Tail(lines))

RECURSIVE SeqsUpTo(_, _)
SeqsUpTo(S, n) ==
    IF n = 0 THEN {<<>>}
    ELSE LET shorter == SeqsUpTo(S, n - 1)
         IN  shorter \cup {Append(s, c) : s \in {t \in shorter : Len(t) = n - 1}, c \in S}

Texts == SeqsUpTo(Chars, MaxTextLen)

\* options.maxLines, options.maxBytes (None: not given), options.direction
LineOptions == {Unset, 1, 2}
ByteOptions == {Unset, 2, 3}
Directions == {None, "head", "tail"}

\* The size of a line inside the preview: its bytes plus the separator of
\* every line but the first kept one.
LineSizeNoSeparator(line, first) == ByteLength(line)

LineSize(line, first) == ByteLength(line) + (IF first THEN 0 ELSE 1)

\* The head loop: lines kept from the start.
RECURSIVE HeadLoop(_, _, _, _, _, _)
HeadLoop(lines, i, maxLines, maxBytes, out, bytes) ==
    IF ~(i < Len(lines) /\ i < maxLines)
    THEN [out |-> out, bytes |-> bytes, hitBytes |-> FALSE]
    ELSE LET size == LineSize(lines[i + 1], i = 0)
         IN  IF bytes + size > maxBytes
             THEN [out |-> out, bytes |-> bytes, hitBytes |-> TRUE]
             ELSE HeadLoop(lines, i + 1, maxLines, maxBytes,
                           Append(out, lines[i + 1]), bytes + size)

\* The tail loop: lines kept from the end.
RECURSIVE TailLoop(_, _, _, _, _, _)
TailLoop(lines, i, maxLines, maxBytes, out, bytes) ==
    IF ~(i >= 0 /\ Len(out) < maxLines)
    THEN [out |-> out, bytes |-> bytes, hitBytes |-> FALSE]
    ELSE LET size == LineSize(lines[i + 1], Len(out) = 0)
         IN  IF bytes + size > maxBytes
             THEN [out |-> out, bytes |-> bytes, hitBytes |-> TRUE]
             ELSE TailLoop(lines, i - 1, maxLines, maxBytes,
                           <<lines[i + 1]>> \o out, bytes + size)

WithinLimitsStrict(nLines, totalBytes, maxLines, maxBytes) ==
    nLines < maxLines /\ totalBytes < maxBytes

WithinLimits(nLines, totalBytes, maxLines, maxBytes) ==
    nLines <= maxLines /\ totalBytes <= maxBytes

EffMaxLines(o) == IF o.maxLines = Unset THEN MAX_LINES ELSE o.maxLines
EffMaxBytes(o) == IF o.maxBytes = Unset THEN MAX_BYTES ELSE o.maxBytes
EffDirection(o) == IF o.direction = None THEN "head" ELSE o.direction

\* What output() has computed when it reaches "await init()".
Cut(text, o) ==
    LET lines == Split(text)
        totalBytes == ByteLength(text)
        loop == IF EffDirection(o) = "head"
                THEN HeadLoop(lines, 0, EffMaxLines(o), EffMaxBytes(o), <<>>, 0)
                ELSE TailLoop(lines, Len(lines) - 1, EffMaxLines(o), EffMaxBytes(o), <<>>, 0)
    IN  [removed |-> IF loop.hitBytes THEN totalBytes - loop.bytes
                     ELSE Len(lines) - Len(loop.out),
         unit    |-> IF loop.hitBytes THEN "chars" ELSE "lines",
         preview |-> Join(loop.out)]

\* The message is a sequence of pieces: stretches of text, the marker
\* "...N unit truncated..." and the hint.
TextPiece(t) == [kind |-> "text", text |-> t]
MarkerPiece(removed, unit) == [kind |-> "marker", removed |-> removed, unit |-> unit]
HintPiece(path, task) == [kind |-> "hint", path |-> path, task |-> task]

Message(direction, preview, removed, unit, path, task) ==
    IF direction = "head"
    THEN <<TextPiece(preview), TextPiece(<<NL, NL>>), MarkerPiece(removed, unit),
           TextPiece(<<NL, NL>>), HintPiece(path, task)>>
    ELSE <<MarkerPiece(removed, unit), TextPiece(<<NL, NL>>), HintPiece(path, task),
           TextPiece(<<NL, NL>>), TextPiece(preview)>>

RECURSIVE Digits(_)
Digits(n) == IF n < 10 THEN 1 ELSE 1 + Digits(n \div 10)

RECURSIVE LineFeeds(_)
LineFeeds(s) == IF s = <<>> THEN 0 ELSE (IF Head(s) = NL THEN 1 ELSE 0) + LineFeeds(Tail(s))

\* The bytes of a piece. The path is counted as "tool-output/" plus the 31
\* characters of the id; the data directory in front of it only adds to it.
PieceBytes(x) ==
    CASE x.kind = "text" -> ByteLength(x.text)
      [] x.kind = "marker" -> 3 + Digits(x.removed) + 1 + 5 + 13
      [] x.kind = "hint" -> 24 + (12 + 31) + 1 + 88 + (IF x.task THEN 49 ELSE 1)

\* The line feeds of a piece: the hint is two lines.
PieceLineFeeds(x) ==
    CASE x.kind = "text" -> LineFeeds(x.text)
      [] x.kind = "marker" -> 0
      [] x.kind = "hint" -> 1

RECURSIVE MessageBytes(_)
MessageBytes(m) == IF m = <<>> THEN 0 ELSE PieceBytes(Head(m)) + MessageBytes(Tail(m))

RECURSIVE MessageLineFeeds(_)
MessageLineFeeds(m) ==
    IF m = <<>> THEN 0 ELSE PieceLineFeeds(Head(m)) + MessageLineFeeds(Tail(m))

\* message.split("\n").length
MessageLines(m) == MessageLineFeeds(m) + 1

\* The preview inside a message.
PreviewOf(direction, m) == IF direction = "head" THEN m[1].text ELSE m[5].text

\* Identifier.ascending("tool"): the stamp is what entry.slice(5, 17) / 0x1000
\* reads back from the id, the serial stands for the rest of the id.
Ascending(prefix, time, serial) ==
    [prefix |-> prefix, stamp |-> time % StampLimit, serial |-> serial]

\* What Bun.write puts into the spill file.
SpillPreview(text, preview) == preview

SpillContent(text, preview) == text

\* The entries init() removes: those with the tool_ prefix whose decoded
\* timestamp is below the cutoff.
GcRemoves(entries, cutoff) ==
    {e \in entries : e.name.prefix = "tool_" /\ ~(e.name.stamp >= cutoff)}

IdleCall == [pc |-> "idle"]
FreshGc == [state |-> "unloaded", cutoff |-> 0, time |-> 0, deleted |-> {}, runs |-> 0,
            before |-> {}]

Callers == {"c1", "c2"}

InitTruncate ==
    /\ now = StartTime
    /\ hook = IdleHook /\ mig = IdleMig
    /\ dir = {}
    /\ gc = FreshGc
    /\ call = [c \in Callers |-> IdleCall]
    /\ idCounter = 0
    /\ sch = IdleSch /\ todo = IdleTodo /\ rel = IdleRel /\ patch = IdlePatch
    /\ ticks = 0
    /\ restarts = 0
    /\ ov = IdleOv
    /\ msgs = <<>>
    /\ holders = <<>> /\ signal = <<>> /\ req = <<>>
    /\ compacting = <<>> /\ store = <<>> /\ events = <<>>
    /\ batch = IdleBatchCall /\ parts = <<>> /\ queue = <<>>

\* output() up to its first await: the early return, or the cut and the call
\* of init(), which runs the GC when it is the first call of the process.
OutputCall(c, text, o, task) ==
    /\ call[c].pc = "idle"
    /\ idCounter' = idCounter + 1
    /\ IF WithinLimits(Len(Split(text)), ByteLength(text), EffMaxLines(o), EffMaxBytes(o))
       THEN /\ call' = [call EXCEPT ![c] =
                   [pc |-> "returned", text |-> text, options |-> o, task |-> task,
                    result |-> [content |-> <<TextPiece(text)>>, truncated |-> FALSE,
                                outputPath |-> NoPath],
                    dirBefore |-> dir]]
            /\ gc' = gc
       ELSE /\ call' = [call EXCEPT ![c] =
                   [pc |-> "awaitInit", text |-> text, options |-> o, task |-> task,
                    dirBefore |-> dir]]
            /\ gc' = IF gc.state = "unloaded"
                     THEN [gc EXCEPT !.state = "running", !.cutoff = now - RETENTION_MS,
                                     !.time = now]
                     ELSE gc
    /\ UNCHANGED <<now, dir, ticks, restarts>>
    /\ UNCHANGED notTrunc

\* The body of init(): readdir and the removal loop.
GcRun ==
    /\ gc.state = "running"
    /\ dir' = dir \ GcRemoves(dir, gc.cutoff)
    /\ gc' = [gc EXCEPT !.state = "done", !.deleted = GcRemoves(dir, gc.cutoff),
                        !.runs = gc.runs + 1, !.before = dir]
    /\ UNCHANGED <<now, call, idCounter, ticks, restarts>>
    /\ UNCHANGED notTrunc

\* output() after "await init()": the id, the spill file and the message.
OutputWrite(c) ==
    /\ call[c].pc = "awaitInit"
    /\ gc.state = "done"
    /\ LET cut == Cut(call[c].text, call[c].options)
           id == Ascending("tool_", now, idCounter)
           file == [name |-> id, created |-> now,
                    content |-> SpillContent(call[c].text, cut.preview)]
       IN  /\ dir' = {e \in dir : e.name # id} \cup {file}
           /\ call' = [call EXCEPT ![c] =
                  [pc |-> "returned", text |-> call[c].text, options |-> call[c].options,
                   task |-> call[c].task,
                   result |-> [content |-> Message(EffDirection(call[c].options), cut.preview,
                                                   cut.removed, cut.unit, id, call[c].task),
                               truncated |-> TRUE, outputPath |-> id],
                   dirBefore |-> call[c].dirBefore]]
    /\ UNCHANGED <<now, gc, idCounter, ticks, restarts>>
    /\ UNCHANGED notTrunc

\* The caller takes the result; it may call again.
OutputReturn(c) ==
    /\ call[c].pc = "returned"
    /\ call' = [call EXCEPT ![c] = IdleCall]
    /\ UNCHANGED <<now, dir, gc, idCounter, ticks, restarts>>
    /\ UNCHANGED notTrunc

\* Time passes.
Tick(d) ==
    /\ ticks < MaxTicks
    /\ ticks' = ticks + 1
    /\ now' = now + d
    /\ UNCHANGED <<dir, gc, call, idCounter, restarts>>
    /\ UNCHANGED notTrunc

\* Something else puts a file without the tool_ prefix into the directory.
ForeignFile ==
    /\ \A e \in dir : e.name.prefix # "other"
    /\ dir' = dir \cup {[name |-> [prefix |-> "other", stamp |-> 0, serial |-> 0],
                         created |-> now, content |-> <<>>]}
    /\ UNCHANGED <<now, gc, call, idCounter, ticks, restarts>>
    /\ UNCHANGED notTrunc

\* The process ends and a new one starts: the lazy init() is fresh, the
\* directory stays.
Restart ==
    /\ restarts < MaxRestarts
    /\ \A c \in Callers : call[c].pc = "idle"
    /\ restarts' = restarts + 1
    /\ gc' = FreshGc
    /\ idCounter' = 0
    /\ UNCHANGED <<now, dir, call, ticks>>
    /\ UNCHANGED notTrunc

\* One caller, every text and every option.
NextTruncate ==
    \/ /\ idCounter < MaxCalls
       /\ call["c1"].pc = "idle"
       /\ \E text \in Texts, ml \in LineOptions, mb \in ByteOptions,
             d \in Directions, task \in BOOLEAN :
             OutputCall("c1", text, [maxLines |-> ml, maxBytes |-> mb, direction |-> d], task)
    \/ GcRun
    \/ OutputWrite("c1")
    \/ OutputReturn("c1")

SpecTruncate == InitTruncate /\ [][NextTruncate]_vars

\* Two concurrent callers, a clock and restarts; one text that fits one line
\* and one that does not.
SpillTexts == {<<"a">>, <<"a", NL, "a">>}
SpillOptions == [maxLines |-> 1, maxBytes |-> Unset, direction |-> None]

NextSpill ==
    \/ \E c \in Callers, text \in SpillTexts :
          /\ idCounter < MaxSpillCalls
          /\ OutputCall(c, text, SpillOptions, FALSE)
    \/ GcRun
    \/ \E c \in Callers : OutputWrite(c)
    \/ \E c \in Callers : OutputReturn(c)
    \/ \E d \in {1, RETENTION_MS} : Tick(d)
    \/ ForeignFile
    \/ Restart

SpecSpill == InitTruncate /\ [][NextSpill]_vars

\* The arguments of a call as output() reads them.
CallLines(c) == Len(Split(call[c].text))
CallBytes(c) == ByteLength(call[c].text)
CallMaxLines(c) == EffMaxLines(call[c].options)
CallMaxBytes(c) == EffMaxBytes(call[c].options)
Returned(c) == call[c].pc = "returned"
Exceeds(c) == CallLines(c) > CallMaxLines(c) \/ CallBytes(c) > CallMaxBytes(c)

\* C4: a text of at most maxLines lines and at most maxBytes bytes comes back
\* as it is: content equal to the input, truncated = false, no outputPath, and
\* the spill directory as it was before the call.
C4_WithinLimitsUnchanged ==
    \A c \in Callers :
        (Returned(c) /\ CallLines(c) <= CallMaxLines(c) /\ CallBytes(c) <= CallMaxBytes(c))
            => /\ call[c].result.content = <<TextPiece(call[c].text)>>
               /\ call[c].result.truncated = FALSE
               /\ call[c].result.outputPath = NoPath
               /\ dir = call[c].dirBefore

\* C4 witness: a text with exactly maxLines lines and exactly maxBytes bytes
\* was returned.
C4_Witness ==
    \E c \in Callers :
        /\ Returned(c)
        /\ call[c].options.maxLines # Unset /\ call[c].options.maxBytes # Unset
        /\ CallLines(c) = CallMaxLines(c) /\ CallBytes(c) = CallMaxBytes(c)
        /\ call[c].result.truncated = FALSE

C6_SpillHoldsOriginal ==
    \A c \in Callers :
        (Returned(c) /\ Exceeds(c))
            => /\ call[c].result.truncated = TRUE
               /\ call[c].result.outputPath.prefix = "tool_"
               /\ \E e \in dir : /\ e.name = call[c].result.outputPath
                                  /\ e.content = call[c].text

\* C6 witness: a text over the byte bound only was spilled, and the preview
\* differs from it.
C6_Witness ==
    \E c \in Callers :
        /\ Returned(c)
        /\ CallBytes(c) > CallMaxBytes(c) /\ CallLines(c) <= CallMaxLines(c)
        /\ \E e \in dir : e.name = call[c].result.outputPath /\ e.content = call[c].text
        /\ PreviewOf(EffDirection(call[c].options), call[c].result.content) # call[c].text

\* C7: the GC runs at most once per process, and it removes exactly the tool_
\* entries made more than 7 days before the GC time: never a younger entry,
\* never an entry without the prefix.
C7_GcRemovesOnlyOld ==
    /\ gc.runs <= 1
    /\ gc.state = "done" =>
          gc.deleted = {e \in gc.before : /\ e.name.prefix = "tool_"
                                          /\ e.created < gc.time - RETENTION_MS}

(***************************************************************************)
(* SessionCompaction.isOverflow (session/compaction.ts)                    *)
(***************************************************************************)

\* The largest token count of one counter in the overflow model.
MaxTokens == 2

\* SessionPrompt.OUTPUT_TOKEN_MAX, the hard cap of the output reserve.
OUTPUT_TOKEN_MAX == 32000

\* Math.min(a, b) || c: c when the minimum is 0.
MinOrNoFallback(a, b, c) == Min(a, b)

MinOr(a, b, c) == IF Min(a, b) = 0 THEN c ELSE Min(a, b)

TokenCount(tokens) == tokens.input + tokens.cache.read + tokens.output

IsOverflowAtLeast(disabled, tokens, model) ==
    IF disabled THEN FALSE
    ELSE IF model.limit.context = 0 THEN FALSE
    ELSE TokenCount(tokens) >=
            model.limit.context - MinOr(model.limit.output, OUTPUT_TOKEN_MAX, OUTPUT_TOKEN_MAX)

\* isOverflow; disabled is Flag.OPENCODE_DISABLE_AUTOCOMPACT.
IsOverflow(disabled, tokens, model) ==
    IF disabled THEN FALSE
    ELSE IF model.limit.context = 0 THEN FALSE
    ELSE LET count == TokenCount(tokens)
             output == MinOr(model.limit.output, OUTPUT_TOKEN_MAX, OUTPUT_TOKEN_MAX)
             usable == model.limit.context - output
         IN  count > usable

TokenValues == 0 .. MaxTokens
OutputLimits == {0, 1, OUTPUT_TOKEN_MAX, OUTPUT_TOKEN_MAX + 1}
ContextLimits == {0} \cup {r + k : r \in {1, OUTPUT_TOKEN_MAX}, k \in 0 .. 3 * MaxTokens}

OverflowCalls ==
    {[state |-> "called", disabled |-> d,
      tokens |-> [input |-> i, output |-> o, reasoning |-> 0, cache |-> [read |-> r, write |-> w]],
      model |-> [limit |-> [context |-> c, output |-> l]]] :
        i \in TokenValues, o \in TokenValues, r \in TokenValues, w \in TokenValues,
        c \in ContextLimits, l \in OutputLimits, d \in BOOLEAN}

InitOverflow ==
    /\ ov \in OverflowCalls
    /\ now = StartTime
    /\ hook = IdleHook /\ mig = IdleMig
    /\ dir = {}
    /\ gc = FreshGc
    /\ call = [c \in Callers |-> IdleCall]
    /\ idCounter = 0
    /\ sch = IdleSch /\ todo = IdleTodo /\ rel = IdleRel /\ patch = IdlePatch
    /\ ticks = 0
    /\ restarts = 0
    /\ msgs = <<>>
    /\ holders = <<>> /\ signal = <<>> /\ req = <<>>
    /\ compacting = <<>> /\ store = <<>> /\ events = <<>>
    /\ batch = IdleBatchCall /\ parts = <<>> /\ queue = <<>>

\* The call returns.
OverflowReturn ==
    /\ ov.state = "called"
    /\ ov' = [state |-> "returned", disabled |-> ov.disabled, tokens |-> ov.tokens,
              model |-> ov.model, result |-> IsOverflow(ov.disabled, ov.tokens, ov.model)]
    /\ UNCHANGED notOverflow

NextOverflow == OverflowReturn

SpecOverflow == InitOverflow /\ [][NextOverflow]_vars

\* The output reserve as the claim states it: min(model.limit.output,
\* OUTPUT_TOKEN_MAX), and OUTPUT_TOKEN_MAX alone when the output limit is 0.
ClaimedReserve ==
    IF ov.model.limit.output = 0 THEN OUTPUT_TOKEN_MAX
    ELSE Min(ov.model.limit.output, OUTPUT_TOKEN_MAX)

ClaimedUsable == ov.model.limit.context - ClaimedReserve

\* C8: isOverflow is true exactly when input + cache.read + output exceeds
\* context minus the reserve; it is false for every count when the context
\* limit is 0 or auto-compaction is disabled.
C8_OverflowFormula ==
    ov.state = "returned" =>
        /\ (ov.disabled \/ ov.model.limit.context = 0) => ov.result = FALSE
        /\ (~ov.disabled /\ ov.model.limit.context # 0) =>
              (ov.result = (TokenCount(ov.tokens) > ClaimedUsable))

\* C8 witness: an overflow found with an output limit of 0, where the
\* reserve is OUTPUT_TOKEN_MAX.
C8_Witness ==
    /\ ov.state = "returned" /\ ov.result = TRUE
    /\ ov.model.limit.output = 0
    /\ TokenCount(ov.tokens) = ClaimedUsable + 1

\* C9 as stated: a count exactly equal to context minus the reserve is an
\* overflow.
C9_BoundaryIsOverflow ==
    (/\ ov.state = "returned" /\ ~ov.disabled /\ ov.model.limit.context # 0
     /\ TokenCount(ov.tokens) = ClaimedUsable)
        => ov.result = TRUE

\* C9 amended: a count exactly equal to context minus the reserve is not an
\* overflow; the first count that is one is the boundary plus one.
C9_BoundaryIsNotOverflow ==
    (ov.state = "returned" /\ ~ov.disabled /\ ov.model.limit.context # 0)
        => /\ TokenCount(ov.tokens) = ClaimedUsable => ov.result = FALSE
           /\ TokenCount(ov.tokens) = ClaimedUsable + 1 => ov.result = TRUE

\* C9 witness: a positive count exactly at the boundary came back false.
C9_Witness ==
    /\ ov.state = "returned" /\ ~ov.disabled /\ ov.model.limit.context # 0
    /\ TokenCount(ov.tokens) = ClaimedUsable
    /\ TokenCount(ov.tokens) > 0
    /\ ov.result = FALSE

(***************************************************************************)
(* SessionCompaction.prune (session/compaction.ts)                         *)
(***************************************************************************)

\* Bounds of the prune model: the messages of the session and the parts of
\* all its assistant messages together.
MaxMessages == 5
MaxParts == 3

PRUNE_MINIMUM == 20000
PRUNE_PROTECT == 40000

\* Token.estimate(part.state.output) of the tool outputs of the model.
Estimates == {15000, 45000}

TextPart == [type |-> "text", status |-> "none", estimate |-> 0, compacted |-> 0]
PendingTool == [type |-> "tool", status |-> "pending", estimate |-> 0, compacted |-> 0]
CompletedTool(e) == [type |-> "tool", status |-> "completed", estimate |-> e, compacted |-> 0]

NewParts == {TextPart, PendingTool} \cup {CompletedTool(e) : e \in Estimates}

\* if (turns < 2) continue
SkipTurnOne(turns) == turns < 1

SkipTurn(turns) == turns < 2

\* if (part.state.time.compacted) break loop
StopsNever(part) == FALSE

Stops(part) == part.compacted # 0

\* if (pruned > PRUNE_MINIMUM)
EnoughAlways(pruned) == TRUE

Enough(pruned) == pruned > PRUNE_MINIMUM

\* The inner loop of prune over the parts of message mi, newest first, from
\* part pi down. st holds total, pruned, toPrune, turns and whether the loop
\* labelled "loop" was left.
RECURSIVE ScanParts(_, _, _, _)
ScanParts(ms, mi, pi, st) ==
    IF pi < 1 THEN st
    ELSE LET part == ms[mi].parts[pi]
         IN  IF part.type = "tool" /\ part.status = "completed"
             THEN IF Stops(part)
                  THEN [st EXCEPT !.broke = TRUE]
                  ELSE LET total == st.total + part.estimate
                       IN  IF total > PRUNE_PROTECT
                           THEN ScanParts(ms, mi, pi - 1,
                                    [st EXCEPT !.total = total,
                                               !.pruned = st.pruned + part.estimate,
                                               !.toPrune = st.toPrune \cup {<<mi, pi>>}])
                           ELSE ScanParts(ms, mi, pi - 1, [st EXCEPT !.total = total])
             ELSE ScanParts(ms, mi, pi - 1, st)

\* The outer loop of prune over the messages, newest first, from mi down.
RECURSIVE ScanMessages(_, _, _)
ScanMessages(ms, mi, st) ==
    IF mi < 1 THEN st
    ELSE LET msg == ms[mi]
             turns == IF msg.role = "user" THEN st.turns + 1 ELSE st.turns
             counted == [st EXCEPT !.turns = turns]
         IN  IF SkipTurn(turns) THEN ScanMessages(ms, mi - 1, counted)
             ELSE IF msg.role = "assistant" /\ msg.summary THEN counted
             ELSE LET scanned == ScanParts(ms, mi, Len(msg.parts), counted)
                  IN  IF scanned.broke THEN scanned
                      ELSE ScanMessages(ms, mi - 1, scanned)

PruneScan(ms) ==
    ScanMessages(ms, Len(ms), [total |-> 0, pruned |-> 0, toPrune |-> {}, turns |-> 0,
                               broke |-> FALSE])

\* The messages after prune has run on them at time t.
Pruned(ms, t) ==
    LET scan == PruneScan(ms)
    IN  IF Enough(scan.pruned)
        THEN [mi \in 1 .. Len(ms) |->
                [ms[mi] EXCEPT !.parts =
                    [pi \in 1 .. Len(ms[mi].parts) |->
                        IF <<mi, pi>> \in scan.toPrune /\ ms[mi].parts[pi].status = "completed"
                        THEN [ms[mi].parts[pi] EXCEPT !.compacted = t]
                        ELSE ms[mi].parts[pi]]]]
        ELSE ms

RECURSIVE CountParts(_)
CountParts(ms) == IF ms = <<>> THEN 0 ELSE Len(Head(ms).parts) + CountParts(Tail(ms))

InitPrune ==
    /\ msgs = <<>>
    /\ now = StartTime
    /\ hook = IdleHook /\ mig = IdleMig
    /\ dir = {}
    /\ gc = FreshGc
    /\ call = [c \in Callers |-> IdleCall]
    /\ idCounter = 0
    /\ sch = IdleSch /\ todo = IdleTodo /\ rel = IdleRel /\ patch = IdlePatch
    /\ ticks = 0
    /\ restarts = 0
    /\ ov = IdleOv
    /\ holders = <<>> /\ signal = <<>> /\ req = <<>>
    /\ compacting = <<>> /\ store = <<>> /\ events = <<>>
    /\ batch = IdleBatchCall /\ parts = <<>> /\ queue = <<>>

\* A prompt adds a user message.
AddUserMessage ==
    /\ Len(msgs) < MaxMessages
    /\ msgs' = Append(msgs, [role |-> "user", summary |-> FALSE, parts |-> <<>>])
    /\ UNCHANGED notPrune

\* A turn, or a compaction (summary), adds an assistant message.
AddAssistantMessage(summary) ==
    /\ Len(msgs) < MaxMessages
    /\ Len(msgs) >= 1
    /\ msgs' = Append(msgs, [role |-> "assistant", summary |-> summary, parts |-> <<>>])
    /\ UNCHANGED notPrune

\* The newest assistant message gets a part; a summary message holds only
\* the text part run() gives it.
AddPart(part) ==
    /\ Len(msgs) >= 1
    /\ msgs[Len(msgs)].role = "assistant"
    /\ msgs[Len(msgs)].summary => (part = TextPart /\ msgs[Len(msgs)].parts = <<>>)
    /\ CountParts(msgs) < MaxParts
    /\ msgs' = [msgs EXCEPT ![Len(msgs)].parts = Append(@, part)]
    /\ UNCHANGED notPrune

\* The time of the latest mark in the session (0: no part is marked).
RECURSIVE LastMark(_, _, _)
LastMark(ms, mi, pi) ==
    IF mi < 1 THEN 0
    ELSE IF pi < 1 THEN LastMark(ms, mi - 1, IF mi > 1 THEN Len(ms[mi - 1].parts) ELSE 0)
    ELSE LET rest == LastMark(ms, mi, pi - 1)
         IN  IF ms[mi].parts[pi].compacted > rest THEN ms[mi].parts[pi].compacted ELSE rest

\* Date.now() of the next prune(): later than every mark there is.
PruneTime(ms) == LastMark(ms, Len(ms), IF ms = <<>> THEN 0 ELSE Len(ms[Len(ms)].parts)) + 1

\* prune(); disabled is Flag.OPENCODE_DISABLE_PRUNE.
Prune(disabled) ==
    /\ msgs' = IF disabled THEN msgs ELSE Pruned(msgs, PruneTime(msgs))
    /\ UNCHANGED notPrune

NextPrune ==
    \/ AddUserMessage
    \/ \E summary \in BOOLEAN : AddAssistantMessage(summary)
    \/ \E part \in NewParts : AddPart(part)
    \/ \E disabled \in BOOLEAN : Prune(disabled)

SpecPrune == InitPrune /\ [][NextPrune]_vars

UserIndexes == {i \in 1 .. Len(msgs) : msgs[i].role = "user"}

\* The index of the second-newest user message (0: there is none).
SecondNewestUser ==
    IF Cardinality(UserIndexes) < 2 THEN 0
    ELSE CHOOSE i \in UserIndexes : Cardinality({j \in UserIndexes : j > i}) = 1

SomePartCompacted ==
    \E mi \in 1 .. Len(msgs) :
        \E pi \in 1 .. Len(msgs[mi].parts) : msgs[mi].parts[pi].compacted # 0

\* C10: no tool part of the messages that follow the second-newest user
\* message is marked compacted, and with fewer than two user messages no
\* part is marked at all.
C10_LastTwoTurnsProtected ==
    /\ Cardinality(UserIndexes) < 2 => ~SomePartCompacted
    /\ \A mi \in 1 .. Len(msgs) :
          mi > SecondNewestUser =>
              \A pi \in 1 .. Len(msgs[mi].parts) : msgs[mi].parts[pi].compacted = 0

\* C10 witness: prune marked an older part while a large completed tool
\* output sits unmarked inside the last two user turns.
C10_Witness ==
    /\ SomePartCompacted
    /\ \E mi \in 1 .. Len(msgs) :
          /\ mi > SecondNewestUser
          /\ \E pi \in 1 .. Len(msgs[mi].parts) :
                /\ msgs[mi].parts[pi].status = "completed"
                /\ msgs[mi].parts[pi].estimate > PRUNE_PROTECT

\* The places of the parts of the session.
Positions == {p \in (1 .. Len(msgs)) \X (1 .. MaxParts) : p[2] <= Len(msgs[p[1]].parts)}

PartAt(ms, p) == ms[p[1]].parts[p[2]]

\* p is newer than q: later in the session.
Newer(p, q) == p[1] > q[1] \/ (p[1] = q[1] /\ p[2] > q[2])

CompletedAt(p) == PartAt(msgs, p).type = "tool" /\ PartAt(msgs, p).status = "completed"

\* The completed tool outputs a prune() of this session counts: outside the
\* last two user turns, back to the newest summary message or the newest
\* output that is already marked.
Counted ==
    {p \in Positions :
        /\ CompletedAt(p)
        /\ PartAt(msgs, p).compacted = 0
        /\ SecondNewestUser > 0
        /\ p[1] <= SecondNewestUser
        /\ ~\E mi \in p[1] .. SecondNewestUser :
              msgs[mi].role = "assistant" /\ msgs[mi].summary
        /\ ~\E q \in Positions :
              /\ Newer(q, p) /\ q[1] <= SecondNewestUser
              /\ CompletedAt(q) /\ PartAt(msgs, q).compacted # 0}

RECURSIVE SumEstimates(_)
SumEstimates(ps) ==
    IF ps = {} THEN 0
    ELSE LET p == CHOOSE q \in ps : TRUE
         IN  PartAt(msgs, p).estimate + SumEstimates(ps \ {p})

\* The counted outputs that lie beyond the newest PRUNE_PROTECT tokens.
Beyond ==
    {p \in Counted :
        SumEstimates({q \in Counted : q = p \/ Newer(q, p)}) > PRUNE_PROTECT}

\* A step that adds no message and no part: a prune().
SameShape ==
    /\ Len(msgs') = Len(msgs)
    /\ \A mi \in 1 .. Len(msgs) : Len(msgs'[mi].parts) = Len(msgs[mi].parts)

\* The outputs the step marks.
Marked == {p \in Positions : PartAt(msgs, p).compacted = 0 /\ PartAt(msgs', p).compacted # 0}

\* C11: a prune() marks outputs only when the outputs beyond PRUNE_PROTECT
\* hold more than PRUNE_MINIMUM estimated tokens; it then marks exactly
\* those, and the counted outputs it leaves unmarked hold at most
\* PRUNE_PROTECT; otherwise it marks nothing. It changes nothing else.
C11_PruneThresholds ==
    [][SameShape =>
          /\ Marked # {} =>
                /\ SumEstimates(Marked) > PRUNE_MINIMUM
                /\ SumEstimates(Counted \ Marked) <= PRUNE_PROTECT
                /\ Marked = Beyond
          /\ SumEstimates(Beyond) <= PRUNE_MINIMUM => Marked = {}
          /\ \A p \in Positions \ Marked : PartAt(msgs', p) = PartAt(msgs, p)]_vars

\* C11 witness: a prune() has marked an output of more than PRUNE_MINIMUM
\* and left a newer counted output unmarked.
C11_Witness ==
    \E p \in Positions, q \in Positions :
        /\ PartAt(msgs, p).compacted # 0 /\ PartAt(msgs, p).estimate > PRUNE_MINIMUM
        /\ Newer(q, p) /\ q[1] <= SecondNewestUser
        /\ CompletedAt(q) /\ PartAt(msgs, q).compacted = 0

\* C12: a second prune() right after a prune() changes nothing: no new
\* mark, and no mark gets a new time.
C12_PruneIdempotent ==
    Pruned(Pruned(msgs, PruneTime(msgs)), PruneTime(Pruned(msgs, PruneTime(msgs))))
        = Pruned(msgs, PruneTime(msgs))

\* C12 witness: a session on which the first prune() marks outputs.
C12_Witness ==
    /\ Pruned(msgs, PruneTime(msgs)) # msgs
    /\ Pruned(Pruned(msgs, PruneTime(msgs)), PruneTime(msgs) + 1)
          = Pruned(msgs, PruneTime(msgs))

(***************************************************************************)
(* SessionCompaction.run and the session lock (session/compaction.ts)      *)
(***************************************************************************)

\* The stream events one run() reads at most.
MaxStreamEvents == 2

Sessions == {"s1", "s2"}
Requests == {"r1", "r2"}

ZeroTokens == [input |-> 0, output |-> 0, reasoning |-> 0, cache |-> [read |-> 0, write |-> 0]]

\* What Session.getUsage returns for a finish-step: a larger step and a
\* smaller one.
Usages ==
    {[cost |-> 1, tokens |-> [input |-> 2, output |-> 2, reasoning |-> 1,
                              cache |-> [read |-> 1, write |-> 1]]],
     [cost |-> 1, tokens |-> [input |-> 1, output |-> 1, reasoning |-> 0,
                              cache |-> [read |-> 0, write |-> 0]]]}

\* The errors a stream can fail with, by the case of the catch block that
\* takes them.
StreamErrors == {"AbortError", "OutputLengthError", "LoadAPIKeyError", "Error"}

\* The catch block of run(): msg.error for a thrown value.
MessageError(e) ==
    CASE e = "AbortError" -> "MessageAbortedError"
      [] e = "OutputLengthError" -> "MessageOutputLengthError"
      [] e = "LoadAPIKeyError" -> "ProviderAuthError"
      [] OTHER -> "UnknownError"

IdleRequest ==
    [pc |-> "idle", kind |-> "none", session |-> "none", owned |-> FALSE, msg |-> 0,
     thrown |-> FALSE, error |-> "none", summary |-> FALSE, completed |-> FALSE,
     cost |-> 0, tokens |-> ZeroTokens, steps |-> 0, outcome |-> "none"]

\* What is left of a request when run() has ended: its locals are gone.
Ended(r, pc, outcome) ==
    [IdleRequest EXCEPT !.pc = pc, !.kind = req[r].kind, !.session = req[r].session,
                        !.msg = req[r].msg, !.outcome = outcome]

\* SessionLock: whether the lock of session s is held.
Locked(s) == holders[s] # {}

\* if (!input.signal) SessionLock.assertUnlocked(input.sessionID)
RunAssertsNever(hasSignal) == FALSE

RunAsserts(hasSignal) == ~hasSignal

\* await using lock = input.signal === undefined ? SessionLock.acquire(...) : undefined
RunAcquires(hasSignal) == ~hasSignal

InitCompaction ==
    /\ holders = [s \in Sessions |-> {}]
    /\ signal = [s \in Sessions |-> FALSE]
    /\ req = [r \in Requests |-> IdleRequest]
    /\ compacting = [s \in Sessions |-> FALSE]
    /\ store = <<>>
    /\ events = {}
    /\ now = StartTime
    /\ hook = IdleHook /\ mig = IdleMig
    /\ dir = {}
    /\ gc = FreshGc
    /\ call = [c \in Callers |-> IdleCall]
    /\ idCounter = 0
    /\ sch = IdleSch /\ todo = IdleTodo /\ rel = IdleRel /\ patch = IdlePatch
    /\ ticks = 0
    /\ restarts = 0
    /\ ov = IdleOv
    /\ msgs = <<>>
    /\ batch = IdleBatchCall /\ parts = <<>> /\ queue = <<>>

\* Requests and sessions are interchangeable: the first request to arrive is
\* called r1 and its session s1.
Arrives(r, s) ==
    /\ req[r].pc = "idle"
    /\ IF r = "r1" THEN s = "s1" ELSE req["r1"].pc # "idle"

\* The turn engine acquires the session lock, or is rejected with Busy.
TurnStart(r, s) ==
    /\ Arrives(r, s)
    /\ IF Locked(s)
       THEN /\ req' = [req EXCEPT ![r].pc = "busy", ![r].kind = "turn", ![r].session = s,
                                  ![r].outcome = "busy"]
            /\ UNCHANGED <<holders, signal>>
       ELSE /\ req' = [req EXCEPT ![r].pc = "turn", ![r].kind = "turn", ![r].session = s]
            /\ holders' = [holders EXCEPT ![s] = @ \cup {r}]
            /\ signal' = [signal EXCEPT ![s] = FALSE]
    /\ UNCHANGED <<compacting, store, events>>
    /\ UNCHANGED notCompaction

\* The turn ends and releases the lock; its token and signal are gone.
TurnEnd(r) ==
    /\ req[r].pc = "turn"
    /\ holders' = [holders EXCEPT ![req[r].session] = @ \ {r}]
    /\ signal' = [signal EXCEPT ![req[r].session] = FALSE]
    /\ req' = [req EXCEPT ![r].pc = "done"]
    /\ UNCHANGED <<compacting, store, events>>
    /\ UNCHANGED notCompaction

\* SessionLock.abort: the signal of the held token fires.
Cancel(s) ==
    /\ Locked(s)
    /\ ~signal[s]
    /\ signal' = [signal EXCEPT ![s] = TRUE]
    /\ UNCHANGED <<holders, req, compacting, store, events>>
    /\ UNCHANGED notCompaction

\* run() up to its first await: the lock. hasSignal: the caller is a turn (r
\* is in its turn) and passes its signal; otherwise run() is called on its
\* own.
RunStart(r, s, hasSignal) ==
    /\ IF hasSignal THEN req[r].pc = "turn" /\ req[r].session = s /\ req[r].outcome = "none"
       ELSE Arrives(r, s)
    /\ IF RunAsserts(hasSignal) /\ Locked(s)
       THEN /\ req' = [req EXCEPT ![r].pc = "busy", ![r].kind = "compaction",
                                  ![r].session = s, ![r].outcome = "busy"]
            /\ UNCHANGED <<holders, signal>>
       ELSE /\ req' = [req EXCEPT ![r].pc = "setCompacting",
                                  ![r].kind = IF hasSignal THEN "turn" ELSE "compaction",
                                  ![r].session = s,
                                  ![r].owned = RunAcquires(hasSignal)]
            /\ holders' = IF RunAcquires(hasSignal)
                          THEN [holders EXCEPT ![s] = @ \cup {r}]
                          ELSE holders
            /\ signal' = IF RunAcquires(hasSignal) THEN [signal EXCEPT ![s] = FALSE]
                         ELSE signal
    /\ UNCHANGED <<compacting, store, events>>
    /\ UNCHANGED notCompaction

\* Session.update sets time.compacting; then the defer is registered.
SetCompacting(r, ok) ==
    /\ req[r].pc = "setCompacting"
    /\ IF ok
       THEN /\ compacting' = [compacting EXCEPT ![req[r].session] = TRUE]
            /\ req' = [req EXCEPT ![r].pc = "prepare"]
       ELSE /\ compacting' = compacting
            /\ req' = [req EXCEPT ![r].pc = "release", ![r].thrown = TRUE]
    /\ UNCHANGED <<holders, signal, store, events>>
    /\ UNCHANGED notCompaction

\* Session.messages, Provider.getModel and the system prompts.
Prepare(r, ok) ==
    /\ req[r].pc = "prepare"
    /\ req' = IF ok THEN [req EXCEPT ![r].pc = "createMessage"]
              ELSE [req EXCEPT ![r].pc = "clearCompacting", ![r].thrown = TRUE]
    /\ UNCHANGED <<holders, signal, compacting, store, events>>
    /\ UNCHANGED notCompaction

\* The message as run() holds it, for Session.updateMessage.
Persisted(r) ==
    [session |-> req[r].session, owner |-> r, completed |-> req[r].completed,
     error |-> req[r].error, summary |-> req[r].summary, cost |-> req[r].cost,
     tokens |-> req[r].tokens]

\* Session.updateMessage persists the summary message.
CreateMessage(r, ok) ==
    /\ req[r].pc = "createMessage"
    /\ IF ok
       THEN /\ req' = [req EXCEPT ![r].pc = "createPart", ![r].msg = Len(store) + 1,
                                  ![r].summary = TRUE]
            /\ store' = Append(store, [Persisted(r) EXCEPT !.summary = TRUE])
       ELSE /\ req' = [req EXCEPT ![r].pc = "clearCompacting", ![r].thrown = TRUE]
            /\ store' = store
    /\ UNCHANGED <<holders, signal, compacting, events>>
    /\ UNCHANGED notCompaction

\* Session.updatePart creates the text part and streamText is set up.
CreatePart(r, ok) ==
    /\ req[r].pc = "createPart"
    /\ req' = IF ok THEN [req EXCEPT ![r].pc = "stream"]
              ELSE [req EXCEPT ![r].pc = "clearCompacting", ![r].thrown = TRUE]
    /\ UNCHANGED <<holders, signal, compacting, store, events>>
    /\ UNCHANGED notCompaction

\* The catch block: msg.error is set and session.error is published.
Caught(r, e) ==
    /\ req' = [req EXCEPT ![r].pc = "finalise", ![r].error = MessageError(e)]
    /\ events' = events \cup {[type |-> "session.error", session |-> req[r].session,
                                msg |-> req[r].msg, error |-> MessageError(e)]}

\* One value of stream.fullStream.
StreamEvent(r, ev, usage, e) ==
    /\ req[r].pc = "stream"
    /\ req[r].steps < MaxStreamEvents
    /\ IF signal[req[r].session]
       THEN Caught(r, "AbortError") /\ store' = store
       ELSE CASE ev = "text" -> UNCHANGED <<req, store, events>>
              [] ev = "finish-step" ->
                   /\ req' = [req EXCEPT ![r].steps = @ + 1,
                                         ![r].cost = @ + usage.cost,
                                         ![r].tokens = usage.tokens]
                   /\ store' = [store EXCEPT ![req[r].msg] =
                                   [Persisted(r) EXCEPT !.cost = req[r].cost + usage.cost,
                                                        !.tokens = usage.tokens]]
                   /\ events' = events
              [] ev = "error" -> Caught(r, e) /\ store' = store
    /\ UNCHANGED <<holders, signal, compacting>>
    /\ UNCHANGED notCompaction

\* The stream ends without an error.
StreamEnd(r) ==
    /\ req[r].pc = "stream"
    /\ req' = [req EXCEPT ![r].pc = "finalise"]
    /\ UNCHANGED <<holders, signal, compacting, store, events>>
    /\ UNCHANGED notCompaction

\* if (!msg.error || MessageV2.AbortedError.isInstance(msg.error))
SummarisesAlways(error) == TRUE

Summarises(error) == error = "none" \/ error = "MessageAbortedError"

\* After the try: time.completed, the summary flag, session.compacted, and
\* the last Session.updateMessage.
Finalise(r, ok) ==
    /\ req[r].pc = "finalise"
    /\ LET success == Summarises(req[r].error)
           final == [req[r] EXCEPT !.completed = TRUE,
                                   !.summary = IF success THEN TRUE ELSE @,
                                   !.pc = "clearCompacting",
                                   !.thrown = ~ok]
       IN  /\ req' = [req EXCEPT ![r] = final]
           /\ events' = IF success
                        THEN events \cup {[type |-> "session.compacted",
                                           session |-> req[r].session,
                                           msg |-> req[r].msg, error |-> "none"]}
                        ELSE events
           /\ store' = IF ok
                       THEN [store EXCEPT ![req[r].msg] =
                               [session |-> final.session, owner |-> r,
                                completed |-> final.completed, error |-> final.error,
                                summary |-> final.summary, cost |-> final.cost,
                                tokens |-> final.tokens]]
                       ELSE store
    /\ UNCHANGED <<holders, signal, compacting>>
    /\ UNCHANGED notCompaction

\* await using _ = defer(...): whether the deferred function runs when the
\* scope is left, by return (thrown = FALSE) or by exception.
DeferRunsOnReturn(thrown) == ~thrown

DeferRuns(thrown) == TRUE

\* The defer is disposed: time.compacting is unset. A run() inside a turn
\* has then ended.
ClearCompacting(r) ==
    /\ req[r].pc = "clearCompacting"
    /\ compacting' = [compacting EXCEPT ![req[r].session] =
                          IF DeferRuns(req[r].thrown) THEN FALSE ELSE @]
    /\ req' = IF req[r].owned THEN [req EXCEPT ![r].pc = "release"]
              ELSE [req EXCEPT ![r] = Ended(r, "turn", IF req[r].thrown THEN "threw"
                                                       ELSE "returned")]
    /\ UNCHANGED <<holders, signal, store, events>>
    /\ UNCHANGED notCompaction

\* The lock run() acquired is disposed; run() has ended. A run() inside a
\* turn holds no lock of its own and goes back to the turn.
Release(r) ==
    /\ req[r].pc = "release"
    /\ holders' = IF req[r].owned THEN [holders EXCEPT ![req[r].session] = @ \ {r}]
                  ELSE holders
    /\ signal' = IF req[r].owned THEN [signal EXCEPT ![req[r].session] = FALSE]
                 ELSE signal
    /\ req' = IF req[r].owned
              THEN [req EXCEPT ![r] = Ended(r, IF req[r].thrown THEN "failed" ELSE "done",
                                            IF req[r].thrown THEN "threw" ELSE "returned")]
              ELSE [req EXCEPT ![r] = Ended(r, "turn", "threw")]
    /\ UNCHANGED <<compacting, store, events>>
    /\ UNCHANGED notCompaction

NextCompaction ==
    \/ \E r \in Requests, s \in Sessions : TurnStart(r, s)
    \/ \E r \in Requests : TurnEnd(r)
    \/ \E s \in Sessions : Cancel(s)
    \/ \E r \in Requests, s \in Sessions, hasSignal \in BOOLEAN : RunStart(r, s, hasSignal)
    \/ \E r \in Requests, ok \in BOOLEAN : SetCompacting(r, ok)
    \/ \E r \in Requests, ok \in BOOLEAN : Prepare(r, ok)
    \/ \E r \in Requests, ok \in BOOLEAN : CreateMessage(r, ok)
    \/ \E r \in Requests, ok \in BOOLEAN : CreatePart(r, ok)
    \/ \E r \in Requests, ev \in {"text", "finish-step", "error"}, usage \in Usages,
          e \in StreamErrors : StreamEvent(r, ev, usage, e)
    \/ \E r \in Requests : StreamEnd(r)
    \/ \E r \in Requests, ok \in BOOLEAN : Finalise(r, ok)
    \/ \E r \in Requests : ClearCompacting(r)
    \/ \E r \in Requests : Release(r)

SpecCompaction == InitCompaction /\ [][NextCompaction]_vars

\* A request that is in a turn, or in a run() called on its own.
Active(r) ==
    /\ req[r].pc \notin {"idle", "busy", "done", "failed"}
    /\ req[r].kind = "turn" \/ req[r].owned

\* C1: per session at most one request holds the lock; a turn and a
\* compaction called on its own, or two such compactions, are never active on
\* one session together; the requester that finds the lock held is rejected
\* with Busy and holds nothing.
C1_OneLockHolder ==
    /\ \A s \in Sessions : Cardinality(holders[s]) <= 1
    /\ \A r1 \in Requests, r2 \in Requests :
          (r1 # r2 /\ Active(r1) /\ Active(r2)) => req[r1].session # req[r2].session
    /\ \A r \in Requests : Active(r) => holders[req[r].session] = {r}
    /\ \A r \in Requests : req[r].pc = "busy" => \A s \in Sessions : r \notin holders[s]

\* C1 witness: a compaction called on its own was rejected with Busy while
\* another such compaction holds the lock of the same session and streams.
C1_Witness ==
    \E r1 \in Requests, r2 \in Requests :
        /\ req[r1].pc = "busy" /\ req[r1].kind = "compaction"
        /\ req[r2].pc = "stream" /\ req[r2].owned
        /\ req[r1].session = req[r2].session
        /\ holders[req[r2].session] = {r2}

\* The publications of one type about the run that persisted message i.
Published(type, i) == {e \in events : e.type = type /\ e.msg = i}

\* The run that persisted message i is past its stream and finalisation.
PastStream(i) ==
    LET r == store[i].owner
    IN  req[r].msg = i /\ req[r].pc \notin {"createPart", "stream", "finalise"}

\* The run that persisted message i has returned.
RunReturned(i) ==
    LET r == store[i].owner
    IN  req[r].msg = i /\ req[r].outcome = "returned"

\* C13: session.compacted is published for a run exactly when its stream
\* ended without error or was aborted; after any other stream error the run
\* has published session.error with that error and no session.compacted, and
\* when it returns the error is on the persisted summary message.
C13_CompactedUnlessFailed ==
    \A i \in 1 .. Len(store) :
        /\ Cardinality(Published("session.error", i)) <= 1
        /\ Published("session.compacted", i) # {} =>
              /\ PastStream(i)
              /\ \A e \in Published("session.error", i) : e.error = "MessageAbortedError"
        /\ RunReturned(i) =>
              /\ (\A e \in Published("session.error", i) : e.error = "MessageAbortedError")
                    => Published("session.compacted", i) # {}
              /\ \A e \in Published("session.error", i) :
                    e.error # "MessageAbortedError"
                    => store[i].error = e.error /\ store[i].completed

\* C13 witness: a run has returned whose stream failed with an
\* OutputLengthError; another run's abort has published session.compacted.
C13_Witness ==
    \E i \in 1 .. Len(store), j \in 1 .. Len(store) :
        /\ req[store[i].owner].outcome = "returned" /\ req[store[i].owner].msg = i
        /\ store[i].error = "MessageOutputLengthError"
        /\ Published("session.error", i) # {}
        /\ Published("session.compacted", i) = {}
        /\ store[j].error = "MessageAbortedError"
        /\ Published("session.compacted", j) # {}

\* C14: from one finish-step to the next, the cost and every token counter
\* of a persisted summary message never decrease.
C14_UsageNeverDecreases ==
    [][\A i \in 1 .. Len(store) :
          /\ store'[i].cost >= store[i].cost
          /\ store'[i].tokens.input >= store[i].tokens.input
          /\ store'[i].tokens.output >= store[i].tokens.output
          /\ store'[i].tokens.reasoning >= store[i].tokens.reasoning
          /\ store'[i].tokens.cache.read >= store[i].tokens.cache.read
          /\ store'[i].tokens.cache.write >= store[i].tokens.cache.write]_vars

\* C3: once run() has ended, by return or by exception, every summary
\* message it persisted has time.completed set.
C3_PersistedMessageCompleted ==
    \A i \in 1 .. Len(store) :
        req[store[i].owner].outcome \in {"returned", "threw"} => store[i].completed

\* C27: a persisted compaction message is flagged summary only if its
\* compaction has no error or was aborted; a message that carries any other
\* error is not flagged.
C27_SummaryOnlyWithoutFailure ==
    \A i \in 1 .. Len(store) :
        store[i].summary => store[i].error \in {"none", "MessageAbortedError"}

\* The positions of run() between setting time.compacting and the disposal
\* of the defer that unsets it.
CompactingPositions ==
    {"prepare", "createMessage", "createPart", "stream", "finalise", "clearCompacting"}

MaxBatchCalls == 3

MIN_CALLS == 1
MAX_CALLS == 10

\* DISALLOWED: only the batch tool itself.
DisallowedBatchOnly == {"batch"}

DISALLOWED == {"batch", "edit", "todoread"}

\* The tools ToolRegistry.tools returns.
Registered == {"read", "batch", "edit", "todoread"}

\* The sub-calls of the modelled batches: a registered tool with parameters
\* its schema accepts or rejects, the disallowed tools, an unknown tool.
CallOptions ==
    {[tool |-> "read", valid |-> TRUE], [tool |-> "read", valid |-> FALSE],
     [tool |-> "batch", valid |-> TRUE], [tool |-> "edit", valid |-> TRUE],
     [tool |-> "todoread", valid |-> TRUE], [tool |-> "nosuch", valid |-> TRUE]}

\* One call more than the schema allows.
Oversized == [i \in 1 .. MAX_CALLS + 1 |-> [tool |-> "read", valid |-> TRUE]]

BatchInputs == UNION {[1 .. n -> CallOptions] : n \in 0 .. MaxBatchCalls} \cup {Oversized}

NoResult == [success |-> FALSE, tool |-> "none"]
NoSummary == [title |-> <<0, 0>>, totalCalls |-> 0, successful |-> 0, failed |-> 0,
              details |-> <<>>]

\* tool_calls: .min(1).max(10)
ValidBatch(calls) == Len(calls) >= MIN_CALLS /\ Len(calls) <= MAX_CALLS

\* The issues the schema raises for tool_calls.
Issues(calls) ==
    (IF Len(calls) < MIN_CALLS THEN {"too_small"} ELSE {})
    \cup (IF Len(calls) > MAX_CALLS THEN {"too_big"} ELSE {})

\* The limits the message of an issue names: "Provide at least one tool
\* call", "Too many tools in batch. Maximum allowed is 10."
IssueMessage(issue) == IF issue = "too_small" THEN {"min"} ELSE {"max"}

\* formatValidationError: the message of every issue, and a payload format
\* that names no limit. The value is the set of limits the text names.
FormatValidationError(issues) == UNION {IssueMessage(issue) : issue \in issues}

\* partIDs: all sub-calls on one part.
PartIDShared(i) == 1

\* partIDs: the part of the i-th sub-call, a fresh Identifier.ascending("part").
PartID(i) == i

\* The synchronous head of executeCall: whether the call throws before
\* tool.execute is invoked.
FailsEarly(c) == c.tool \in DISALLOWED \/ c.tool \notin Registered \/ ~c.valid

Write(part, status, i, success) ==
    [part |-> part, status |-> status, call |-> i, success |-> success]

\* The pending writes of the first loop, in the order they are issued; none
\* is awaited (call 0).
RECURSIVE PendingWrites(_, _)
PendingWrites(calls, i) ==
    IF i > Len(calls) THEN <<>>
    ELSE <<Write(PartID(i), "pending", 0, FALSE)>> \o PendingWrites(calls, i + 1)

\* toolCalls.map(executeCall): the error writes of the calls that throw
\* before their tool is invoked, in call order.
RECURSIVE EarlyWrites(_, _)
EarlyWrites(calls, i) ==
    IF i > Len(calls) THEN <<>>
    ELSE (IF FailsEarly(calls[i]) THEN <<Write(PartID(i), "error", i, FALSE)>> ELSE <<>>)
         \o EarlyWrites(calls, i + 1)

\* results.filter((r) => r.success).length
CountSuccessAll(results, i) == Len(results)

RECURSIVE CountSuccess(_, _)
CountSuccess(results, i) ==
    IF i > Len(results) THEN 0
    ELSE (IF results[i].success THEN 1 ELSE 0) + CountSuccess(results, i + 1)

\* The value execute returns, from the results of Promise.all.
Summary(calls, results) ==
    LET successfulCalls == CountSuccess(results, 1)
        failedCalls == Len(calls) - successfulCalls
    IN  [title |-> <<successfulCalls, Len(calls)>>, totalCalls |-> Len(calls),
         successful |-> successfulCalls, failed |-> failedCalls,
         details |-> [i \in 1 .. Len(results) |->
                        [tool |-> results[i].tool, success |-> results[i].success]]]

InitBatch ==
    /\ batch = [pc |-> "idle", calls |-> <<>>, st |-> <<>>, results |-> <<>>,
                invoked |-> {}, finished |-> <<>>, error |-> {}, summary |-> NoSummary]
    /\ parts = [p \in 1 .. MaxBatchCalls |-> <<>>]
    /\ queue = <<>>
    /\ now = StartTime
    /\ hook = IdleHook /\ mig = IdleMig
    /\ dir = {}
    /\ gc = FreshGc
    /\ call = [c \in Callers |-> IdleCall]
    /\ idCounter = 0
    /\ sch = IdleSch /\ todo = IdleTodo /\ rel = IdleRel /\ patch = IdlePatch
    /\ ticks = 0
    /\ restarts = 0
    /\ ov = IdleOv
    /\ msgs = <<>>
    /\ holders = <<>> /\ signal = <<>> /\ req = <<>>
    /\ compacting = <<>> /\ store = <<>> /\ events = <<>>

\* The batch tool is called; its parameters are validated.
BatchCall(calls) ==
    /\ batch.pc = "idle"
    /\ batch' = [batch EXCEPT !.pc = IF ValidBatch(calls) THEN "validated" ELSE "rejected",
                              !.calls = calls,
                              !.error = FormatValidationError(Issues(calls))]
    /\ UNCHANGED <<parts, queue>>
    /\ UNCHANGED notBatch

\* execute from the first loop up to Promise.all: every pending write is
\* issued, then every executeCall runs up to its first await.
BatchIssue ==
    /\ batch.pc = "validated"
    /\ LET calls == batch.calls
       IN  /\ queue' = queue \o PendingWrites(calls, 1) \o EarlyWrites(calls, 1)
           /\ batch' = [batch EXCEPT
                  !.pc = "running",
                  !.st = [i \in 1 .. Len(calls) |->
                            IF FailsEarly(calls[i]) THEN "writing" ELSE "executing"],
                  !.results = [i \in 1 .. Len(calls) |-> NoResult],
                  !.invoked = {i \in 1 .. Len(calls) : ~FailsEarly(calls[i])}]
    /\ parts' = parts
    /\ UNCHANGED notBatch

\* tool.execute of sub-call i resolves or rejects; executeCall issues the
\* terminal write and awaits it.
ToolSettles(i, ok) ==
    /\ batch.pc = "running"
    /\ i \in 1 .. Len(batch.calls)
    /\ batch.st[i] = "executing"
    /\ batch' = [batch EXCEPT !.st[i] = "writing"]
    /\ queue' = Append(queue, Write(PartID(i), IF ok THEN "completed" ELSE "error", i, ok))
    /\ parts' = parts
    /\ UNCHANGED notBatch

\* The repository applies a write, the oldest one of its part; an awaited
\* write resumes its executeCall, which returns its result.
ApplyWrite(k) ==
    /\ k \in 1 .. Len(queue)
    /\ \A j \in 1 .. k - 1 : queue[j].part # queue[k].part
    /\ LET w == queue[k]
       IN  /\ parts' = [parts EXCEPT ![w.part] = Append(@, w.status)]
           /\ batch' = IF w.call = 0 THEN batch
                       ELSE [batch EXCEPT
                               !.st[w.call] = "done",
                               !.finished = Append(@, w.call),
                               !.results[w.call] = [success |-> w.success,
                                                    tool |-> batch.calls[w.call].tool]]
    /\ queue' = [j \in 1 .. Len(queue) - 1 |-> IF j < k THEN queue[j] ELSE queue[j + 1]]
    /\ UNCHANGED notBatch

\* Promise.all resolves and execute returns the summary.
BatchReturn ==
    /\ batch.pc = "running"
    /\ \A i \in 1 .. Len(batch.calls) : batch.st[i] = "done"
    /\ batch' = [batch EXCEPT !.pc = "returned",
                              !.summary = Summary(batch.calls, batch.results)]
    /\ UNCHANGED <<parts, queue>>
    /\ UNCHANGED notBatch

NextBatch ==
    \/ batch.pc = "idle" /\ \E calls \in BatchInputs : BatchCall(calls)
    \/ BatchIssue
    \/ \E i \in 1 .. MaxBatchCalls, ok \in BOOLEAN : ToolSettles(i, ok)
    \/ \E k \in 1 .. 2 * MaxBatchCalls : ApplyWrite(k)
    \/ BatchReturn

SpecBatch == InitBatch /\ [][NextBatch]_vars

\* The states a tool part of a batch sub-call goes through.
PartHistories ==
    {<<>>, <<"pending">>, <<"pending", "completed">>, <<"pending", "error">>}

BatchStarted == batch.pc \in {"running", "returned"}

CallIndexes == 1 .. Len(batch.calls)

\* C15: a sub-call that names batch, edit or todoread never has its tool
\* invoked and its part ends in error; the sub-calls of the same batch
\* that name a registered, allowed tool with valid parameters are invoked.
C15_DisallowedNeverRun ==
    BatchStarted =>
        \A i \in CallIndexes :
            /\ batch.calls[i].tool \in {"batch", "edit", "todoread"} =>
                  /\ i \notin batch.invoked
                  /\ parts[PartID(i)] \in {<<>>, <<"pending">>, <<"pending", "error">>}
                  /\ batch.pc = "returned" => parts[PartID(i)] = <<"pending", "error">>
            /\ (batch.calls[i].tool = "read" /\ batch.calls[i].valid) => i \in batch.invoked

\* C15 witness: a returned batch with a disallowed sub-call in error next to
\* a sub-call that ran and completed.
C15_Witness ==
    /\ batch.pc = "returned"
    /\ \E i \in CallIndexes, j \in CallIndexes :
          /\ batch.calls[i].tool = "edit" /\ parts[PartID(i)] = <<"pending", "error">>
          /\ j \in batch.invoked /\ parts[PartID(j)] = <<"pending", "completed">>

\* The sub-calls that failed: their part is in error.
FailedCalls == {i \in CallIndexes : parts[PartID(i)] = <<"pending", "error">>}

C17_EmptyBatchRejected ==
    (batch.pc # "idle" /\ batch.calls = <<>>) =>
        /\ batch.pc = "rejected"
        /\ \A p \in DOMAIN parts : parts[p] = <<>>
        /\ queue = <<>>
        /\ batch.invoked = {}
        /\ batch.error = {"min", "max"}

(***************************************************************************)
(* HookOrchestrator (hook/index.ts)                                        *)
(***************************************************************************)

\* The plugin hooks one Plugin.trigger runs at most.
MaxHooks == 2

Dispatchers == {"preToolValidate", "postToolTransform", "sessionStop", "notification"}

NoReason == ""

\* What one plugin hook does to the output it is handed, and whether it
\* then throws.
HookOptions ==
    [sets : {"nothing", "block", "unblock"}, reason : {NoReason, "policy"},
     throws : BOOLEAN]

HookLists == UNION {[1 .. n -> HookOptions] : n \in 0 .. MaxHooks}

\* The output object after a hook has written to it.
Applied(output, h) ==
    [blocked |-> CASE h.sets = "block" -> TRUE
                   [] h.sets = "unblock" -> FALSE
                   [] OTHER -> output.blocked,
     reason |-> IF h.sets = "block" THEN h.reason ELSE output.reason]

\* The catch block of a dispatcher: whether it throws what it caught again.
RethrowsCaught(raised) == raised

Rethrows(raised) == FALSE

\* `Tool execution blocked: ${output.reason || "No reason provided"}`
BlockedMessage(reason) == IF reason # NoReason THEN reason ELSE "No reason provided"

InitHook ==
    /\ hook = [pc |-> "idle", dispatcher |-> None, left |-> <<>>,
               output |-> [blocked |-> FALSE, reason |-> NoReason],
               raised |-> FALSE, result |-> None, message |-> NoReason]
    /\ mig = IdleMig
    /\ now = StartTime
    /\ dir = {}
    /\ gc = FreshGc
    /\ call = [c \in Callers |-> IdleCall]
    /\ idCounter = 0
    /\ sch = IdleSch /\ todo = IdleTodo /\ rel = IdleRel /\ patch = IdlePatch
    /\ ticks = 0
    /\ restarts = 0
    /\ ov = IdleOv
    /\ msgs = <<>>
    /\ holders = <<>> /\ signal = <<>> /\ req = <<>>
    /\ compacting = <<>> /\ store = <<>> /\ events = <<>>
    /\ batch = IdleBatchCall /\ parts = <<>> /\ queue = <<>>

\* A dispatcher is called and calls Plugin.trigger; hooks are the plugin
\* hooks registered for its event.
Dispatch(d, hooks) ==
    /\ hook.pc = "idle"
    /\ hook' = [hook EXCEPT !.pc = "trigger", !.dispatcher = d, !.left = hooks]
    /\ UNCHANGED notHook

\* Plugin.trigger runs the next hook on the shared output; a hook that
\* throws ends the trigger with its exception.
HookRuns ==
    /\ hook.pc = "trigger"
    /\ hook.left # <<>>
    /\ LET h == Head(hook.left)
       IN  hook' = [hook EXCEPT !.output = Applied(hook.output, h),
                                !.left = IF h.throws THEN <<>> ELSE Tail(hook.left),
                                !.raised = h.throws]
    /\ UNCHANGED notHook

\* Plugin.trigger has ended, by return or by exception; the dispatcher
\* runs its catch block and what follows the try.
DispatchEnds ==
    /\ hook.pc = "trigger"
    /\ hook.left = <<>>
    /\ hook' =
          IF hook.raised /\ Rethrows(hook.raised)
          THEN [hook EXCEPT !.pc = "done", !.result = "threw plugin error"]
          ELSE IF hook.dispatcher = "preToolValidate" /\ hook.output.blocked
          THEN [hook EXCEPT !.pc = "done", !.result = "threw blocked",
                            !.message = BlockedMessage(hook.output.reason)]
          ELSE [hook EXCEPT !.pc = "done", !.result = "returned"]
    /\ UNCHANGED notHook

NextHook ==
    \/ hook.pc = "idle" /\ \E d \in Dispatchers, hooks \in HookLists : Dispatch(d, hooks)
    \/ HookRuns
    \/ DispatchEnds

SpecHook == InitHook /\ [][NextHook]_vars

\* C18: postToolTransform, sessionStop and notification always return;
\* preToolValidate throws exactly when output.blocked is true after the
\* hooks ran, whether or not one of them threw, and its error carries
\* output.reason.
C18_HookErrorsContained ==
    hook.pc = "done" =>
        /\ hook.result # "threw plugin error"
        /\ hook.dispatcher # "preToolValidate" => hook.result = "returned"
        /\ hook.dispatcher = "preToolValidate" =>
              /\ (hook.result = "threw blocked") = hook.output.blocked
              /\ (hook.result = "threw blocked" /\ hook.output.reason # NoReason)
                    => hook.message = hook.output.reason

\* C18 witness: a validate hook set blocked with a reason and then threw;
\* preToolValidate has thrown the blocking error with that reason.
C18_Witness ==
    /\ hook.pc = "done"
    /\ hook.dispatcher = "preToolValidate"
    /\ hook.raised
    /\ hook.result = "threw blocked"
    /\ hook.message = "policy"

(***************************************************************************)
(* migrateFromJson, the JSON importer (storage/json-migration.ts)          *)
(***************************************************************************)

\* The runs of the importer, and the writes the application makes to the
\* database while and between them.
MaxRuns == 3
MaxAppWrites == 1

\* The entity kinds in the order the importer processes them.
Kinds ==
    <<"project", "session", "message", "part", "session_diff", "todo", "permission",
      "session_share", "share">>

\* The table an owner of a row of this kind is looked up in (None: the
\* kind has no owner).
OwnerKind(kind) ==
    CASE kind = "session" -> "project"
      [] kind = "message" -> "session"
      [] kind = "part" -> "message"
      [] kind \in {"session_diff", "todo", "session_share"} -> "session"
      [] kind = "permission" -> "project"
      [] OTHER -> None

File(kind, id, owner, ok) == [kind |-> kind, id |-> id, owner |-> owner, ok |-> ok]

\* The legacy files every modelled tree holds: the dependants of project
\* p1, session s1 and message m1, a session and a permission of a project
\* p2 that has no file, and a todo file that does not parse.
CommonFiles ==
    {File("session", "s2", "p2", TRUE), File("part", "q1", "m1", TRUE),
     File("session_diff", "s1", "s1", TRUE), File("todo", "s1", "s1", TRUE),
     File("todo", "s3", "s3", FALSE), File("permission", "p1", "p1", TRUE),
     File("permission", "p2", "p2", TRUE), File("session_share", "s1", "s1", TRUE),
     File("share", "s9", None, TRUE)}

\* The files a tree may hold or lack: the owners.
OwnerFiles ==
    {File("project", "p1", None, TRUE), File("session", "s1", "p1", TRUE),
     File("message", "m1", "s1", TRUE)}

Trees ==
    {[files |-> CommonFiles \cup owners, migration |-> mf] :
        owners \in SUBSET OwnerFiles, mf \in BOOLEAN}

Row(kind, id, owner, data, run) ==
    [kind |-> kind, id |-> id, owner |-> owner, data |-> data, run |-> run]

HasRow(db, kind, id) == \E r \in db : r.kind = kind /\ r.id = id

\* db.select().from(owner table).where(eq(id, owner)).get()
OwnerFound(db, f) == OwnerKind(f.kind) = None \/ HasRow(db, OwnerKind(f.kind), f.owner)

\* .onConflictDoNothing(): a row of the same primary key is replaced.
InsertReplace(db, row) ==
    {r \in db : ~(r.kind = row.kind /\ r.id = row.id)} \cup {row}

\* insert(...).values(...).onConflictDoNothing().run(), with PRAGMA
\* foreign_keys = ON: a row whose primary key exists is left as it is, a row
\* whose owner is missing is refused.
Insert(db, row) ==
    IF HasRow(db, row.kind, row.id) THEN db
    ELSE IF OwnerKind(row.kind) # None /\ ~HasRow(db, OwnerKind(row.kind), row.owner) THEN db
    ELSE db \cup {row}

\* What the importer does on an orphaned file: continue.
OnOrphanAbort == "abort"

OnOrphan == "continue"

InitMigration ==
    /\ mig \in {[pc |-> "idle", tree |-> t, db |-> {}, marker |-> FALSE, kind |-> 0,
                  seen |-> {}, markerSeen |-> {}, runs |-> 0, appWrites |-> 0,
                  foundMarker |-> FALSE] : t \in Trees}
    /\ hook = IdleHook
    /\ now = StartTime
    /\ dir = {}
    /\ gc = FreshGc
    /\ call = [c \in Callers |-> IdleCall]
    /\ idCounter = 0
    /\ sch = IdleSch /\ todo = IdleTodo /\ rel = IdleRel /\ patch = IdlePatch
    /\ ticks = 0
    /\ restarts = 0
    /\ ov = IdleOv
    /\ msgs = <<>>
    /\ holders = <<>> /\ signal = <<>> /\ req = <<>>
    /\ compacting = <<>> /\ store = <<>> /\ events = <<>>
    /\ batch = IdleBatchCall /\ parts = <<>> /\ queue = <<>>

\* The database is opened and migrateFromJson starts: the marker check and
\* the check for a legacy tree.
MigrationStart ==
    /\ mig.pc \in {"idle", "done", "interrupted", "aborted"}
    /\ mig.runs < MaxRuns
    /\ mig' =
          IF mig.marker
          THEN [mig EXCEPT !.pc = "done", !.runs = @ + 1, !.foundMarker = TRUE, !.seen = {}]
          ELSE IF ~mig.tree.migration
          THEN [mig EXCEPT !.pc = "done", !.runs = @ + 1, !.foundMarker = FALSE,
                           !.marker = TRUE, !.seen = {}, !.markerSeen = {}]
          ELSE [mig EXCEPT !.pc = "running", !.runs = @ + 1, !.foundMarker = FALSE,
                           !.kind = 1, !.seen = {}]
    /\ UNCHANGED notMigration

\* One file of the glob of the current kind is read, checked and inserted.
ImportFile(f) ==
    /\ mig.pc = "running"
    /\ f \in mig.tree.files \ mig.seen
    /\ f.kind = Kinds[mig.kind]
    /\ mig' =
          IF ~f.ok THEN [mig EXCEPT !.seen = @ \cup {f}]
          ELSE IF ~OwnerFound(mig.db, f)
          THEN IF OnOrphan = "continue" THEN [mig EXCEPT !.seen = @ \cup {f}]
               ELSE [mig EXCEPT !.pc = "aborted"]
          ELSE [mig EXCEPT !.seen = @ \cup {f},
                           !.db = Insert(mig.db, Row(f.kind, f.id, f.owner, "legacy",
                                                     mig.runs))]
    /\ UNCHANGED notMigration

\* The glob of the current kind is exhausted: on to the next kind, and after
\* the last one to the marker.
NextKind ==
    /\ mig.pc = "running"
    /\ \A f \in mig.tree.files : f.kind = Kinds[mig.kind] => f \in mig.seen
    /\ mig' = IF mig.kind < Len(Kinds) THEN [mig EXCEPT !.kind = @ + 1]
              ELSE [mig EXCEPT !.pc = "marking"]
    /\ UNCHANGED notMigration

\* Bun.write(migrationMarker, ...)
WriteMarker ==
    /\ mig.pc = "marking"
    /\ mig' = [mig EXCEPT !.pc = "done", !.marker = TRUE, !.markerSeen = mig.seen,
                          !.seen = {}, !.kind = 0]
    /\ UNCHANGED notMigration

\* The process dies while the importer runs.
Interrupt ==
    /\ mig.pc \in {"running", "marking"}
    /\ mig' = [mig EXCEPT !.pc = "interrupted", !.seen = {}, !.kind = 0]
    /\ UNCHANGED notMigration

\* The application, which does not wait for the importer, writes a row: it
\* updates one that exists, or creates a project.
AppWrite(kind, id) ==
    /\ mig.appWrites < MaxAppWrites
    /\ mig.runs >= 1
    /\ HasRow(mig.db, kind, id) \/ kind = "project"
    /\ mig' = [mig EXCEPT
                 !.appWrites = @ + 1,
                 !.db = IF HasRow(mig.db, kind, id)
                        THEN {IF r.kind = kind /\ r.id = id THEN [r EXCEPT !.data = "live"]
                              ELSE r : r \in mig.db}
                        ELSE mig.db \cup {Row(kind, id, None, "live", 0)}]
    /\ UNCHANGED notMigration

\* The rows the application writes in the model.
RowKeys == {<<"project", "p1">>, <<"project", "p2">>, <<"session", "s1">>, <<"todo", "s1">>}

NextMigration ==
    \/ MigrationStart
    \/ \E f \in CommonFiles \cup OwnerFiles : ImportFile(f)
    \/ NextKind
    \/ WriteMarker
    \/ Interrupt
    \/ \E k \in RowKeys : AppWrite(k[1], k[2])

SpecMigration == InitMigration /\ [][NextMigration]_vars

\* No two rows of a table share a primary key.
NoDuplicateRows ==
    \A r1 \in mig.db, r2 \in mig.db : (r1.kind = r2.kind /\ r1.id = r2.id) => r1 = r2

\* A step of the importer, not of the application.
ImporterStep == mig'.appWrites = mig.appWrites

\* C19: the marker of a legacy tree is written only by a run that has gone
\* through every file of every kind; once the marker is there the importer
\* writes nothing to the database; and no run, a repeated one after an
\* interruption included, adds a second row for a key or changes a row that
\* exists.
C19_MarkerLast ==
    /\ []((mig.marker /\ mig.tree.migration) => mig.markerSeen = mig.tree.files)
    /\ []NoDuplicateRows
    /\ [][ImporterStep =>
            /\ mig.db \subseteq mig'.db
            /\ mig.marker => mig'.db = mig.db]_vars

\* C19 witness: a run was interrupted after it had inserted rows, a second
\* run inserted the rest and wrote the marker, a third found the marker.
C19_Witness ==
    /\ mig.foundMarker
    /\ mig.runs = 3
    /\ \E r \in mig.db : r.run = 1
    /\ \E r \in mig.db : r.run = 2

\* C20: every row the importer inserted has its owner in the database; an
\* orphaned file never aborts a run, and a run that ends has the marker
\* written.
C20_OwnersExist ==
    /\ \A r \in mig.db :
          (r.run >= 1 /\ OwnerKind(r.kind) # None) => HasRow(mig.db, OwnerKind(r.kind), r.owner)
    /\ mig.pc # "aborted"
    /\ mig.pc = "done" => mig.marker

\* C20 witness: the marker is written after a run that skipped the
\* orphaned session s2 and the orphaned permission p2 and imported session
\* s1 with its message and part.
C20_Witness ==
    /\ mig.marker
    /\ File("session", "s2", "p2", TRUE) \in mig.markerSeen
    /\ File("permission", "p2", "p2", TRUE) \in mig.markerSeen
    /\ ~HasRow(mig.db, "session", "s2") /\ ~HasRow(mig.db, "permission", "p2")
    /\ HasRow(mig.db, "session", "s1") /\ HasRow(mig.db, "part", "q1")

(***************************************************************************)
(* The schema migrator: migrate() of the store and the generator of the    *)
(* migrations list                                                         *)
(***************************************************************************)

\* The migration files of the newest binary and the store opens of one
\* behaviour.
MaxMigrations == 2
MaxOpens == 3

\* The names of the migration files; a larger number is a later name.
MigrationNames == 1 .. MaxMigrations

\* files.sort() of the generator: the names in ascending order.
RECURSIVE SortedFiles(_)
SortedFiles(files) ==
    IF files = {} THEN <<>>
    ELSE LET least == CHOOSE f \in files : \A g \in files : f <= g
         IN  <<least>> \o SortedFiles(files \ {least})

\* The generated migrations of a binary that was built with the first
\* version migration files.
Migrations(version) == SortedFiles(1 .. version)

\* The statements of the initial migration: CREATE TABLE and CREATE INDEX,
\* which SQLite refuses when the object exists ("ddl").
InitialSql == <<"ddl", "ddl">>

\* The statements of a later migration: again such definitions, or
\* statements SQLite accepts any number of times ("dml").
LaterSqls == [1 .. 2 -> {"ddl", "dml"}]

\* applied.has(migration.name)
AppliedHasNever(applied, name) == FALSE

AppliedHas(applied, name) == name \in applied

Elements(seq) == {seq[n] : n \in 1 .. Len(seq)}

InitSchema ==
    /\ sch \in {[pc |-> "closed", kinds |-> [m \in MigrationNames |->
                                              IF m = 1 THEN InitialSql ELSE later[m]],
                 done |-> [m \in MigrationNames |-> <<0, 0>>],
                 recorded |-> <<>>, table |-> FALSE, log |-> <<>>,
                 version |-> 0, applied |-> {}, i |-> 0, k |-> 0, opens |-> 0,
                 before |-> [done |-> [m \in MigrationNames |-> <<0, 0>>],
                             recorded |-> <<>>]] :
                later \in [MigrationNames -> LaterSqls]}
    /\ todo = IdleTodo /\ rel = IdleRel /\ patch = IdlePatch
    /\ hook = IdleHook /\ mig = IdleMig
    /\ now = StartTime
    /\ dir = {}
    /\ gc = FreshGc
    /\ call = [c \in Callers |-> IdleCall]
    /\ idCounter = 0
    /\ ticks = 0
    /\ restarts = 0
    /\ ov = IdleOv
    /\ msgs = <<>>
    /\ holders = <<>> /\ signal = <<>> /\ req = <<>>
    /\ compacting = <<>> /\ store = <<>> /\ events = <<>>
    /\ batch = IdleBatchCall /\ parts = <<>> /\ queue = <<>>

\* A process opens the store (connection): migrate() creates _migrations if
\* it is missing and reads the applied names. version: the binary of the
\* process.
SchemaOpen(version) ==
    /\ sch.pc \in {"closed", "open", "failed"}
    /\ sch.opens < MaxOpens
    /\ sch' = [sch EXCEPT !.pc = "loop", !.version = version, !.table = TRUE,
                          !.applied = Elements(sch.recorded), !.i = 1, !.k = 1,
                          !.opens = @ + 1,
                          !.before = [done |-> sch.done, recorded |-> sch.recorded]]
    /\ UNCHANGED notSchema

\* if (applied.has(migration.name)) continue
SkipMigration ==
    /\ sch.pc = "loop"
    /\ sch.i <= sch.version
    /\ AppliedHas(sch.applied, Migrations(sch.version)[sch.i])
    /\ sch' = [sch EXCEPT !.i = @ + 1]
    /\ UNCHANGED notSchema

\* sqlite.exec(migration.sql), one statement: each statement is committed
\* on its own. SQLite raises an error for a definition of an object that
\* exists.
ExecStatement ==
    /\ sch.pc = "loop"
    /\ sch.i <= sch.version
    /\ LET name == Migrations(sch.version)[sch.i]
       IN  /\ ~AppliedHas(sch.applied, name)
           /\ IF sch.kinds[name][sch.k] = "ddl" /\ sch.done[name][sch.k] > 0
              THEN sch' = [sch EXCEPT !.pc = "failed"]
              ELSE sch' = [sch EXCEPT !.done[name][sch.k] = @ + 1,
                                      !.k = IF sch.k = Len(sch.kinds[name]) THEN 1 ELSE @ + 1,
                                      !.pc = IF sch.k = Len(sch.kinds[name])
                                             THEN "insert" ELSE @,
                                      !.log = IF sch.k = Len(sch.kinds[name])
                                              THEN Append(@, name) ELSE @]
    /\ UNCHANGED notSchema

\* INSERT INTO _migrations (name, applied_at): name is the primary key.
RecordMigration ==
    /\ sch.pc = "insert"
    /\ LET name == Migrations(sch.version)[sch.i]
       IN  IF name \in Elements(sch.recorded)
           THEN sch' = [sch EXCEPT !.pc = "failed"]
           ELSE sch' = [sch EXCEPT !.recorded = Append(@, name), !.pc = "loop",
                                   !.i = @ + 1]
    /\ UNCHANGED notSchema

\* The loop is over: migrate() returns and the store is open.
SchemaOpened ==
    /\ sch.pc = "loop"
    /\ sch.i > sch.version
    /\ sch' = [sch EXCEPT !.pc = "open"]
    /\ UNCHANGED notSchema

\* A statement of migration.sql fails: sqlite.exec throws, and migrate()
\* and the open with it.
StatementFails ==
    /\ sch.pc = "loop"
    /\ sch.i <= sch.version
    /\ ~AppliedHas(sch.applied, Migrations(sch.version)[sch.i])
    /\ sch' = [sch EXCEPT !.pc = "failed"]
    /\ UNCHANGED notSchema

\* The INSERT INTO _migrations fails: sqlite.run throws.
RecordFails ==
    /\ sch.pc = "insert"
    /\ sch' = [sch EXCEPT !.pc = "failed"]
    /\ UNCHANGED notSchema

NextSchema ==
    \/ \E version \in MigrationNames : SchemaOpen(version)
    \/ SkipMigration
    \/ ExecStatement
    \/ RecordMigration
    \/ SchemaOpened

\* Store opens in which no statement fails.
SpecSchema == InitSchema /\ [][NextSchema]_vars

NextSchemaFailing ==
    \/ NextSchema
    \/ StatementFails
    \/ RecordFails

\* Store opens in which a statement of a migration, or the INSERT that
\* records it, can fail.
SpecSchemaFailing == InitSchema /\ [][NextSchemaFailing]_vars

AscendingNames(seq) == \A a \in 1 .. Len(seq), b \in 1 .. Len(seq) : a < b => seq[a] < seq[b]

\* Some statement of migration name has been applied.
Touched(name) == \E n \in 1 .. Len(sch.done[name]) : sch.done[name][n] > 0

C23_FailedOpenLeavesNothing ==
    sch.pc = "failed" =>
        /\ sch.done = sch.before.done
        /\ sch.recorded = sch.before.recorded

(***************************************************************************)
(* Todo (session/todo.ts)                                                  *)
(***************************************************************************)

\* The calls of Todo.update in one behaviour.
MaxTodoCalls == 2

TodoItems ==
    {[id |-> "t1", content |-> "a", status |-> "pending", priority |-> "high"],
     [id |-> "t2", content |-> "b", status |-> "completed", priority |-> "low"]}

\* The lists a caller passes: empty, one item, two items.
TodoLists ==
    {<<>>} \cup {<<a>> : a \in TodoItems} \cup {<<a, b>> : a \in TodoItems, b \in TodoItems}

\* .onConflictDoUpdate({ target: TodoTable.sessionID, set: { data: input.todos } })
UpsertMerge(old, new) == old \o new

Upsert(old, new) == new

\* db().insert(TodoTable).values(...).onConflictDoUpdate(...).run() on the
\* rows of the todo table.
TodoWrite(rows, sessionID, todos) ==
    IF \E row \in rows : row.session = sessionID
    THEN {IF row.session = sessionID
          THEN [row EXCEPT !.data = Upsert(row.data, todos)] ELSE row : row \in rows}
    ELSE rows \cup {[session |-> sessionID, data |-> todos]}

\* Todo.get: row?.data ?? []
TodoGet(rows, sessionID) ==
    IF \E row \in rows : row.session = sessionID
    THEN (CHOOSE row \in rows : row.session = sessionID).data
    ELSE <<>>

InitTodo ==
    /\ todo \in {[pc |-> "idle", sessions |-> ss, rows |-> {}, events |-> <<>>,
                  sessionID |-> None, todos |-> <<>>, calls |-> 0,
                  before |-> [rows |-> {}, events |-> <<>>]] :
                 ss \in SUBSET Sessions}
    /\ sch = IdleSch /\ rel = IdleRel /\ patch = IdlePatch
    /\ hook = IdleHook /\ mig = IdleMig
    /\ now = StartTime
    /\ dir = {}
    /\ gc = FreshGc
    /\ call = [c \in Callers |-> IdleCall]
    /\ idCounter = 0
    /\ ticks = 0
    /\ restarts = 0
    /\ ov = IdleOv
    /\ msgs = <<>>
    /\ holders = <<>> /\ signal = <<>> /\ req = <<>>
    /\ compacting = <<>> /\ store = <<>> /\ events = <<>>
    /\ batch = IdleBatchCall /\ parts = <<>> /\ queue = <<>>

\* Todo.update up to .run(): the upsert. It throws when the database
\* refuses the row (the session of the foreign key does not exist) or the
\* write fails (ok = FALSE); nothing is written then.
TodoUpdate(sessionID, todos, ok) ==
    /\ todo.pc \in {"idle", "returned", "threw"}
    /\ todo.calls < MaxTodoCalls
    /\ LET written == ok /\ sessionID \in todo.sessions
       IN  todo' = [todo EXCEPT !.pc = IF written THEN "persisted" ELSE "threw",
                                !.sessionID = sessionID, !.todos = todos,
                                !.calls = @ + 1,
                                !.before = [rows |-> todo.rows, events |-> todo.events],
                                !.rows = IF written THEN TodoWrite(@, sessionID, todos)
                                         ELSE @]
    /\ UNCHANGED notTodo

\* Bus.publish(Event.Updated, input); update returns.
TodoPublish ==
    /\ todo.pc = "persisted"
    /\ todo' = [todo EXCEPT !.pc = "returned",
                            !.events = Append(@, [type |-> "todo.updated",
                                                  sessionID |-> todo.sessionID,
                                                  todos |-> todo.todos])]
    /\ UNCHANGED notTodo

NextTodo ==
    \/ \E sessionID \in Sessions, todos \in TodoLists, ok \in BOOLEAN :
          TodoUpdate(sessionID, todos, ok)
    \/ TodoPublish

SpecTodo == InitTodo /\ [][NextTodo]_vars

\* C24: after Todo.update returned, Todo.get of its session is the list it
\* was given, every other session's list is as before, and exactly one
\* todo.updated event with that session and list was added; the event is
\* added only when the row holds the list; after a failed update no event
\* was added.
C24_TodoReplacedAndPublished ==
    /\ todo.pc = "returned" =>
          /\ TodoGet(todo.rows, todo.sessionID) = todo.todos
          /\ \A s \in Sessions \ {todo.sessionID} :
                TodoGet(todo.rows, s) = TodoGet(todo.before.rows, s)
          /\ todo.events = Append(todo.before.events,
                                  [type |-> "todo.updated", sessionID |-> todo.sessionID,
                                   todos |-> todo.todos])
    /\ todo.pc = "persisted" =>
          /\ TodoGet(todo.rows, todo.sessionID) = todo.todos
          /\ todo.events = todo.before.events
    /\ todo.pc = "threw" => todo.events = todo.before.events

\* C24 witness: a second update of a session has replaced a list of two
\* items by a list of one, while another session keeps its list.
C24_Witness ==
    /\ todo.pc = "returned"
    /\ Len(TodoGet(todo.before.rows, todo.sessionID)) = 2
    /\ Len(todo.todos) = 1
    /\ Len(todo.events) = 2

(***************************************************************************)
(* The tables of the store (session/session.sql.ts, share/share.sql.ts),   *)
(* their foreign keys, and the operations that write them                  *)
(***************************************************************************)

Projects == {"global", "p1"}

\* The worktree a directory resolves to, per project id.
WorktreeOf(projectID) == IF projectID = "global" THEN "/" ELSE "/w1"

\* Session.directory: the worktree of p1, another directory, or not set.
Directories == {"/w1", "/w2", None}

\* Message and part ids are unique: each belongs to one session.
MessageIDs == {"m1", "m2"}
PartIDs == {"q1", "q2"}
SessionOfMessage(messageID) == IF messageID = "m1" THEN "s1" ELSE "s2"
MessageOfPart(partID) == IF partID = "q1" THEN "m1" ELSE "m2"

\* The tables with session_id as primary key and foreign key.
SessionOwned == {"todo", "session_diff", "session_share"}

\* The JSON a row holds in its data column (for a project: its columns).
Data(id, owner, session, parent, directory) ==
    [id |-> id, owner |-> owner, session |-> session, parent |-> parent,
     directory |-> directory]

\* A row: its table, its primary key, the owner column (project_id,
\* session_id or message_id), part.session_id, session.parent_id, and data.
StoreRow(kind, id, owner, session, parent, data) ==
    [kind |-> kind, id |-> id, owner |-> owner, session |-> session, parent |-> parent,
     data |-> data]

Stored(db, kind, id) == \E row \in db : row.kind = kind /\ row.id = id

RowOf(db, kind, id) == CHOOSE row \in db : row.kind = kind /\ row.id = id

\* The table a foreign key of a table refers to.
ReferencedKind(kind) ==
    CASE kind = "session" -> "project"
      [] kind = "part" -> "message"
      [] kind = "project" -> None
      [] OTHER -> "session"

\* PRAGMA foreign_keys = ON: the owner of a written row must exist.
ForeignKeyHolds(db, row) ==
    row.kind = "project" \/ Stored(db, ReferencedKind(row.kind), row.owner)

\* ON DELETE cascade: the rows that go when the rows of gone are deleted.
\* session.parent_id and part.session_id are plain columns: no row goes
\* because of them.
RECURSIVE Cascade(_, _)
Cascade(db, gone) ==
    LET more == {row \in db \ gone :
                    \E g \in gone : ReferencedKind(row.kind) = g.kind /\ row.owner = g.id}
    IN  IF more = {} THEN gone ELSE Cascade(db, gone \cup more)

\* A DELETE that removes the session row alone.
DeleteRowOnly(db, sessionID) ==
    db \ {row \in db : row.kind = "session" /\ row.id = sessionID}

\* DELETE of one session row.
DeleteRow(db, sessionID) ==
    db \ Cascade(db, {row \in db : row.kind = "session" /\ row.id = sessionID})

\* insert(...).onConflictDoUpdate({ target: id, set: { data } }): a new row
\* needs its owner; an existing row keeps its columns and gets the data.
UpsertData(db, row) ==
    IF Stored(db, row.kind, row.id)
    THEN {IF r.kind = row.kind /\ r.id = row.id THEN [r EXCEPT !.data = row.data] ELSE r :
             r \in db}
    ELSE IF ForeignKeyHolds(db, row) THEN db \cup {row} ELSE db

\* The last operation on the store: what it was, on which id, and how many
\* rows it removed.
NoOperation == [op |-> "none", id |-> None, removed |-> 0]

\* The store with its two projects, as Project.fromDirectory leaves it.
InitCascade ==
    /\ rel = [db |-> {StoreRow("project", p, None, None, None,
                               Data(p, None, None, None, WorktreeOf(p))) : p \in Projects},
              last |-> NoOperation]
    /\ sch = IdleSch /\ todo = IdleTodo /\ patch = IdlePatch
    /\ hook = IdleHook /\ mig = IdleMig
    /\ now = StartTime
    /\ dir = {}
    /\ gc = FreshGc
    /\ call = [c \in Callers |-> IdleCall]
    /\ idCounter = 0
    /\ ticks = 0
    /\ restarts = 0
    /\ ov = IdleOv
    /\ msgs = <<>>
    /\ holders = <<>> /\ signal = <<>> /\ req = <<>>
    /\ compacting = <<>> /\ store = <<>> /\ events = <<>>
    /\ batch = IdleBatchCall /\ parts = <<>> /\ queue = <<>>

\* A session is created in a project, on its own or as the child of a
\* session of that project.
CreateSession(sessionID, projectID, parentID, directory) ==
    /\ ~Stored(rel.db, "session", sessionID)
    /\ Stored(rel.db, "project", projectID)
    /\ parentID # None =>
          /\ Stored(rel.db, "session", parentID)
          /\ RowOf(rel.db, "session", parentID).owner = projectID
    /\ rel' = [db |-> rel.db \cup
                         {StoreRow("session", sessionID, projectID, None, parentID,
                                   Data(sessionID, projectID, None, parentID, directory))},
               last |-> [op |-> "create", id |-> sessionID, removed |-> 0]]
    /\ UNCHANGED notRel

\* A message is written to its session.
WriteMessage(messageID) ==
    /\ ~Stored(rel.db, "message", messageID)
    /\ Stored(rel.db, "session", SessionOfMessage(messageID))
    /\ rel' = [db |-> rel.db \cup
                         {StoreRow("message", messageID, SessionOfMessage(messageID), None,
                                   None, Data(messageID, SessionOfMessage(messageID), None,
                                              None, None))},
               last |-> [op |-> "write", id |-> messageID, removed |-> 0]]
    /\ UNCHANGED notRel

\* A part is written to its message, with the session of that message.
WritePart(partID) ==
    /\ ~Stored(rel.db, "part", partID)
    /\ Stored(rel.db, "message", MessageOfPart(partID))
    /\ LET messageID == MessageOfPart(partID)
           sessionID == RowOf(rel.db, "message", messageID).owner
       IN  rel' = [db |-> rel.db \cup
                             {StoreRow("part", partID, messageID, sessionID, None,
                                       Data(partID, messageID, sessionID, None, None))},
                   last |-> [op |-> "write", id |-> partID, removed |-> 0]]
    /\ UNCHANGED notRel

\* The todo list, the diff or the share of a session is written.
WriteOwned(kind, sessionID) ==
    /\ ~Stored(rel.db, kind, sessionID)
    /\ Stored(rel.db, "session", sessionID)
    /\ rel' = [db |-> rel.db \cup
                         {StoreRow(kind, sessionID, sessionID, None, None,
                                   Data(None, None, None, None, None))},
               last |-> [op |-> "write", id |-> sessionID, removed |-> 0]]
    /\ UNCHANGED notRel

\* The row of a session is deleted.
DeleteSession(sessionID) ==
    /\ Stored(rel.db, "session", sessionID)
    /\ rel' = [db |-> DeleteRow(rel.db, sessionID),
               last |-> [op |-> "delete", id |-> sessionID,
                         removed |-> Cardinality(rel.db \ DeleteRow(rel.db, sessionID))]]
    /\ UNCHANGED notRel

NextCascade ==
    \/ \E sessionID \in Sessions, projectID \in Projects, parentID \in Sessions \cup {None} :
          CreateSession(sessionID, projectID, parentID, None)
    \/ \E messageID \in MessageIDs : WriteMessage(messageID)
    \/ \E partID \in PartIDs : WritePart(partID)
    \/ \E kind \in SessionOwned, sessionID \in Sessions : WriteOwned(kind, sessionID)
    \/ \E sessionID \in Sessions : DeleteSession(sessionID)

SpecCascade == InitCascade /\ [][NextCascade]_vars

\* The rows a session owns: those with its id in session_id, and its
\* messages' parts.
OwnedBy(db, sessionID) ==
    {row \in db :
        \/ row.kind \in {"message"} \cup SessionOwned /\ row.owner = sessionID
        \/ row.kind = "part" /\ row.session = sessionID}

GlobalSessions(db) == {row \in db : row.kind = "session" /\ row.owner = "global"}

\* migrateFromGlobal, for one session: sessions of another directory stay;
\* the others are updated to the new project, an UPDATE the database
\* refuses, and the catch swallows, when that project has no row.
MigratedRow(db, row, newProjectID, worktree) ==
    IF row.data.directory # None /\ row.data.directory # worktree THEN row
    ELSE LET updated == [row EXCEPT !.owner = newProjectID,
                                    !.data = [row.data EXCEPT !.owner = newProjectID]]
         IN  IF ForeignKeyHolds(db, updated) THEN updated ELSE row

\* migrateFromGlobal(newProjectID, worktree)
MigrateFromGlobal(db, newProjectID, worktree) ==
    IF ~Stored(db, "project", "global") THEN db
    ELSE {IF row \in GlobalSessions(db) THEN MigratedRow(db, row, newProjectID, worktree)
          ELSE row : row \in db}

\* The upsert of the project row at the end of fromDirectory.
UpsertProject(db, projectID, worktree) ==
    {row \in db : ~(row.kind = "project" /\ row.id = projectID)}
        \cup {StoreRow("project", projectID, None, None, None,
                       Data(projectID, None, None, None, worktree))}

\* The store before the first Project.fromDirectory.
InitStore ==
    /\ rel = [db |-> {}, last |-> NoOperation]
    /\ sch = IdleSch /\ todo = IdleTodo /\ patch = IdlePatch
    /\ hook = IdleHook /\ mig = IdleMig
    /\ now = StartTime
    /\ dir = {}
    /\ gc = FreshGc
    /\ call = [c \in Callers |-> IdleCall]
    /\ idCounter = 0
    /\ ticks = 0
    /\ restarts = 0
    /\ ov = IdleOv
    /\ msgs = <<>>
    /\ holders = <<>> /\ signal = <<>> /\ req = <<>>
    /\ compacting = <<>> /\ store = <<>> /\ events = <<>>
    /\ batch = IdleBatchCall /\ parts = <<>> /\ queue = <<>>

\* Project.fromDirectory for a directory that resolves to projectID: a
\* project without row that is not the global one first takes over the
\* sessions of the global project; then the project row is written.
FromDirectory(projectID) ==
    /\ LET worktree == WorktreeOf(projectID)
           migrated == IF ~Stored(rel.db, "project", projectID) /\ projectID # "global"
                       THEN MigrateFromGlobal(rel.db, projectID, worktree)
                       ELSE rel.db
       IN  rel' = [db |-> UpsertProject(migrated, projectID, worktree),
                   last |-> [op |-> "fromDirectory", id |-> projectID, removed |-> 0]]
    /\ UNCHANGED notRel

\* The session information of an export file or of a legacy session file.
SessionInfos ==
    {Data(id, projectID, None, parentID, None) :
        id \in Sessions, projectID \in Projects, parentID \in Sessions \cup {None}}

\* The import command in project current: the session of the file is
\* upserted into the current project with the parentID of the file, then
\* its messages and their parts. content: what the file holds besides the
\* session.
ImportCommand(info, content, current) ==
    /\ Stored(rel.db, "project", current)
    /\ info.parent # info.id
    /\ LET messageID == CHOOSE m \in MessageIDs : SessionOfMessage(m) = info.id
           partID == CHOOSE q \in PartIDs : MessageOfPart(q) = messageID
           withSession == UpsertData(rel.db, StoreRow("session", info.id, current, None,
                                                      info.parent, info))
           withMessage ==
               IF content = "session" THEN withSession
               ELSE UpsertData(withSession,
                               StoreRow("message", messageID, info.id, None, None,
                                        Data(messageID, info.id, None, None, None)))
           withPart ==
               IF content # "parts" THEN withMessage
               ELSE UpsertData(withMessage,
                               StoreRow("part", partID, messageID, info.id, None,
                                        Data(partID, messageID, info.id, None, None)))
       IN  rel' = [db |-> withPart,
                   last |-> [op |-> "import", id |-> info.id, removed |-> 0]]
    /\ UNCHANGED notRel

\* migrateFromJson, one session file: skipped without its project, inserted
\* with the projectID and parentID of the file unless the id exists.
ImportSessionFile(info) ==
    /\ info.parent # info.id
    /\ rel' = [db |-> IF Stored(rel.db, "project", info.owner)
                         /\ ~Stored(rel.db, "session", info.id)
                      THEN rel.db \cup {StoreRow("session", info.id, info.owner, None,
                                                 info.parent, info)}
                      ELSE rel.db,
               last |-> [op |-> "json", id |-> info.id, removed |-> 0]]
    /\ UNCHANGED notRel

NextStore ==
    \/ \E projectID \in Projects : FromDirectory(projectID)
    \/ \E sessionID \in Sessions, projectID \in Projects, parentID \in Sessions \cup {None},
          directory \in Directories :
          CreateSession(sessionID, projectID, parentID, directory)
    \/ \E info \in SessionInfos, content \in {"session", "messages", "parts"},
          current \in Projects : ImportCommand(info, content, current)
    \/ \E info \in SessionInfos : ImportSessionFile(info)
    \/ \E sessionID \in Sessions : DeleteSession(sessionID)

SpecStore == InitStore /\ [][NextStore]_vars

\* The export command: one file per row, in the directory of the row's
\* owner column, holding the row's data.
ExportTree(db) ==
    {[kind |-> row.kind, directory |-> row.owner, name |-> row.id, data |-> row.data] :
        row \in db}

\* migrateFromJson into an empty database, table by table: the keys come
\* from the data of the file (for the tables keyed by session from its
\* name), and a file whose owner is missing is skipped.
JsonProjects(tree) ==
    {StoreRow("project", f.data.id, None, None, None, f.data) :
        f \in {g \in tree : g.kind = "project" /\ g.data.id # None}}

JsonSessions(tree) ==
    {StoreRow("session", f.data.id, f.data.owner, None, f.data.parent, f.data) :
        f \in {g \in tree : /\ g.kind = "session"
                            /\ g.data.id # None /\ g.data.owner # None
                            /\ Stored(JsonProjects(tree), "project", g.data.owner)}}

JsonMessages(tree) ==
    {StoreRow("message", f.data.id, f.data.owner, None, None, f.data) :
        f \in {g \in tree : /\ g.kind = "message"
                            /\ g.data.id # None /\ g.data.owner # None
                            /\ Stored(JsonSessions(tree), "session", g.data.owner)}}

JsonParts(tree) ==
    {StoreRow("part", f.data.id, f.data.owner, f.data.session, None, f.data) :
        f \in {g \in tree : /\ g.kind = "part"
                            /\ g.data.id # None /\ g.data.owner # None
                            /\ g.data.session # None
                            /\ Stored(JsonMessages(tree), "message", g.data.owner)}}

JsonOwned(tree) ==
    {StoreRow(f.kind, f.name, f.name, None, None, f.data) :
        f \in {g \in tree : /\ g.kind \in SessionOwned
                            /\ Stored(JsonSessions(tree), "session", g.name)}}

MigratedFromJson(tree) ==
    JsonProjects(tree) \cup JsonSessions(tree) \cup JsonMessages(tree)
        \cup JsonParts(tree) \cup JsonOwned(tree)

\* C21: exporting the store and importing the tree into an empty database
\* gives the rows of the store back: same ids, same owner columns, same
\* data.
C21_ExportImportRoundTrip ==
    MigratedFromJson(ExportTree(rel.db)) = rel.db

\* C26: every session with a parentID has an existing parent session of the
\* same project.
C26_ParentInSameProject ==
    \A row \in rel.db :
        (row.kind = "session" /\ row.parent # None) =>
            /\ Stored(rel.db, "session", row.parent)
            /\ RowOf(rel.db, "session", row.parent).owner = row.owner

\* C29: when fromDirectory gives a project other than the global one its
\* first row while the global project has sessions, the global sessions of
\* the resolved worktree, or of no directory, belong to the new project
\* afterwards, and every other global session still to the global one.
C29_GlobalSessionsMoved ==
    [][(/\ rel'.last.op = "fromDirectory"
        /\ rel'.last.id # "global"
        /\ ~Stored(rel.db, "project", rel'.last.id)
        /\ Stored(rel.db, "project", "global"))
          => \A row \in GlobalSessions(rel.db) :
                /\ Stored(rel'.db, "session", row.id)
                /\ RowOf(rel'.db, "session", row.id).owner =
                      IF row.data.directory \in {None, WorktreeOf(rel'.last.id)}
                      THEN rel'.last.id ELSE "global"]_vars

(***************************************************************************)
(* apply_patch (tool/apply_patch.ts)                                       *)
(***************************************************************************)

\* The hunks of a patch: at most so many.
MaxHunks == 2

PatchPaths == {"a", "b"}

\* The content of a path: that of a file, or none (no such file).
Absent == "absent"
FileContents == {"x", "y"}

\* A hunk as Patch.parsePatch gives it: add with contents, update with
\* chunks (fits: whether they apply to the file) and maybe a move_path, or
\* delete.
Hunks ==
    {[type |-> "add", path |-> p, move |-> None, fits |-> TRUE] : p \in PatchPaths}
        \cup {[type |-> "update", path |-> p, move |-> mv, fits |-> fits] :
                 p \in PatchPaths, mv \in PatchPaths \cup {None}, fits \in BOOLEAN}
        \cup {[type |-> "delete", path |-> p, move |-> None, fits |-> TRUE] :
                 p \in PatchPaths}

PatchTexts == UNION {[1 .. n -> Hunks] : n \in 0 .. MaxHunks}

\* The content add and update hunks give a file.
Patched == "y"

\* The verification of one hunk against the files: the change it records,
\* or a failure.
VerifyFailed == [type |-> "failed", filePath |-> None, movePath |-> None,
                 newContent |-> Absent]

Verified(files, hunk) ==
    CASE hunk.type = "add" ->
           [type |-> "add", filePath |-> hunk.path, movePath |-> None,
            newContent |-> Patched]
      [] hunk.type = "update" ->
           IF files[hunk.path] = Absent \/ ~hunk.fits THEN VerifyFailed
           ELSE [type |-> IF hunk.move # None THEN "move" ELSE "update",
                 filePath |-> hunk.path, movePath |-> hunk.move, newContent |-> Patched]
      [] hunk.type = "delete" ->
           IF files[hunk.path] = Absent THEN VerifyFailed
           ELSE [type |-> "delete", filePath |-> hunk.path, movePath |-> None,
                 newContent |-> Absent]

\* patterns of the edit ask: fileChanges.map((c) => path.relative(worktree, c.filePath))
AskPatterns(changes) == {changes[n].filePath : n \in 1 .. Len(changes)}

\* The files after one change is applied; unlink of a missing file throws.
Unlinks(change) == change.type \in {"move", "delete"}

ApplyFails(files, change) ==
    Unlinks(change) /\ files[change.filePath] = Absent
        /\ ~(change.type = "move" /\ change.movePath = change.filePath)

Applied1(files, change) ==
    CASE change.type \in {"add", "update"} ->
           [files EXCEPT ![change.filePath] = change.newContent]
      [] change.type = "move" ->
           [[files EXCEPT ![change.movePath] = change.newContent]
               EXCEPT ![change.filePath] = Absent]
      [] change.type = "delete" -> [files EXCEPT ![change.filePath] = Absent]

\* The paths one change writes or removes.
Touches(change) ==
    {change.filePath} \cup (IF change.type = "move" THEN {change.movePath} ELSE {})

\* changedFiles.push(...)
ChangedFile(change) == IF change.type = "move" THEN change.movePath ELSE change.filePath

InitPatch ==
    /\ patch \in {[pc |-> "idle", files |-> fs, before |-> fs, hunks |-> <<>>, i |-> 0,
                   changes |-> <<>>, patterns |-> {}, granted |-> FALSE,
                   touched |-> {}, changedFiles |-> <<>>, events |-> <<>>,
                   failedAt |-> None] :
                  fs \in [PatchPaths -> FileContents \cup {Absent}]}
    /\ sch = IdleSch /\ todo = IdleTodo /\ rel = IdleRel
    /\ hook = IdleHook /\ mig = IdleMig
    /\ now = StartTime
    /\ dir = {}
    /\ gc = FreshGc
    /\ call = [c \in Callers |-> IdleCall]
    /\ idCounter = 0
    /\ ticks = 0
    /\ restarts = 0
    /\ ov = IdleOv
    /\ msgs = <<>>
    /\ holders = <<>> /\ signal = <<>> /\ req = <<>>
    /\ compacting = <<>> /\ store = <<>> /\ events = <<>>
    /\ batch = IdleBatchCall /\ parts = <<>> /\ queue = <<>>

\* execute: the patch is parsed; a patch without hunks is rejected.
PatchCall(hunks) ==
    /\ patch.pc = "idle"
    /\ patch' = IF hunks = <<>>
                THEN [patch EXCEPT !.pc = "failed", !.failedAt = "verify"]
                ELSE [patch EXCEPT !.pc = "verify", !.hunks = hunks, !.i = 1]
    /\ UNCHANGED notPatch

\* The verification loop, one hunk. allowed: assertExternalDirectory and
\* FileTime.assert let the hunk pass.
VerifyHunk(allowed) ==
    /\ patch.pc = "verify"
    /\ patch.i <= Len(patch.hunks)
    /\ LET change == Verified(patch.files, patch.hunks[patch.i])
       IN  patch' = IF ~allowed \/ change = VerifyFailed
                    THEN [patch EXCEPT !.pc = "failed", !.failedAt = "verify"]
                    ELSE [patch EXCEPT !.changes = Append(@, change), !.i = @ + 1]
    /\ UNCHANGED notPatch

\* await ctx.ask({ permission: "edit", patterns, ... }): granted, or it
\* throws.
AskEdit(granted) ==
    /\ patch.pc = "verify"
    /\ patch.i > Len(patch.hunks)
    /\ patch' = IF granted
                THEN [patch EXCEPT !.pc = "apply", !.i = 1, !.granted = TRUE,
                                   !.patterns = AskPatterns(patch.changes)]
                ELSE [patch EXCEPT !.pc = "failed", !.failedAt = "ask",
                                   !.patterns = AskPatterns(patch.changes)]
    /\ UNCHANGED notPatch

\* The apply loop, one change.
ApplyChange ==
    /\ patch.pc = "apply"
    /\ patch.i <= Len(patch.changes)
    /\ LET change == patch.changes[patch.i]
       IN  patch' =
             IF ApplyFails(patch.files, change)
             THEN [patch EXCEPT !.pc = "failed", !.failedAt = "apply",
                                !.files = IF change.type = "move"
                                          THEN [@ EXCEPT ![change.movePath] =
                                                            change.newContent]
                                          ELSE @,
                                !.touched = IF change.type = "move"
                                            THEN @ \cup {change.movePath} ELSE @]
             ELSE [patch EXCEPT !.files = Applied1(@, change),
                                !.touched = @ \cup Touches(change),
                                !.changedFiles = Append(@, ChangedFile(change)),
                                !.i = @ + 1]
    /\ UNCHANGED notPatch

\* The file-changed events are published and execute returns.
PublishChanges ==
    /\ patch.pc = "apply"
    /\ patch.i > Len(patch.changes)
    /\ patch' = [patch EXCEPT !.pc = "returned", !.events = patch.changedFiles]
    /\ UNCHANGED notPatch

NextPatch ==
    \/ patch.pc = "idle" /\ \E hunks \in PatchTexts : PatchCall(hunks)
    \/ \E allowed \in BOOLEAN : VerifyHunk(allowed)
    \/ \E granted \in BOOLEAN : AskEdit(granted)
    \/ ApplyChange
    \/ PublishChanges

SpecPatch == InitPatch /\ [][NextPatch]_vars

\* No file is written, moved or deleted before every hunk is verified and
\* the ask is granted.
PatchWritesAfterAsk ==
    (patch.files # patch.before \/ patch.touched # {}) =>
        /\ patch.granted
        /\ Len(patch.changes) = Len(patch.hunks)
        /\ patch.pc \in {"apply", "returned", "failed"}

\* A failed verification or a denied ask leaves the files as they were and
\* publishes nothing.
PatchFailureLeavesFiles ==
    patch.failedAt \in {"verify", "ask"} =>
        /\ patch.files = patch.before
        /\ patch.touched = {}
        /\ patch.events = <<>>

\* Every path written, moved to or deleted is among the patterns of the
\* ask.
PatchAskCoversPaths == patch.touched \subseteq patch.patterns

\* C30: apply_patch writes, moves or deletes no file before every hunk is
\* verified and the edit ask, which covers every affected path, is granted;
\* after a failed verification or a denied ask the files are unchanged and
\* no event is published.
C30_PatchAfterVerifyAndAsk ==
    /\ PatchWritesAfterAsk
    /\ PatchFailureLeavesFiles
    /\ PatchAskCoversPaths

====
